---- MODULE Spec2Model ----
(***************************************************************************)
(* Hierarchy manager (index-manager.mjs) and sync planner                  *)
(* (sync-planner.js) of the docs-as-code toolkit.                          *)
(*                                                                         *)
(* The hierarchy specification `Spec` has as its state the loaded category *)
(* index, the loaded document index and the manifest file on disk; its     *)
(* actions are the tool's operations validateStructure and rebuildManifest *)
(* and the edits a user makes to the docs folder between two runs.         *)
(* The sync specification `SyncSpec` draws a local state, a remote state   *)
(* and a changed-path set and applies createSyncPlan to them.              *)
(***************************************************************************)
EXTENDS Integers, Sequences, FiniteSets, TLC

\* ------------------------------------------------------------------------
\* Program constants
\* ------------------------------------------------------------------------
MAX_DOC_DEPTH == 3
DEFAULT_ORDER == 9999

\* ------------------------------------------------------------------------
\* Bounds of the model
\* ------------------------------------------------------------------------
MaxEdits == 1
MaxOrder == 2
MaxMoves == 1
MaxFailures == 1

\* ------------------------------------------------------------------------
\* JavaScript values
\* ------------------------------------------------------------------------
\* null (front matter `parent` absent: fm.parent ?? null)
NULL == "<null>"
\* the empty string (front matter `parent: ''`)
EMPTY == ""
\* a field that is not a number (order: undefined)
NoOrder == 0 - 1

\* JavaScript truthiness of a parent value: null and '' are falsy
Truthy(v) == v # NULL /\ v # EMPTY

\* String.prototype.toLowerCase on the strings of the model
toLowerCase(s) ==
  CASE s = "G" -> "g"
    [] s = "A" -> "a"
    [] s = "K" -> "k"
    [] s = "H" -> "h"
    [] OTHER -> s

\* String.prototype.localeCompare: position in the collation order
\* (lower case before upper case of the same letter)
Collation == <<"a", "A", "b", "c", "d", "g", "G", "h", "k", "zz">>

CollationRank(s) == CHOOSE i \in 1..Len(Collation) : Collation[i] = s

localeCompare(x, y) ==
  IF CollationRank(x) < CollationRank(y) THEN 0 - 1
  ELSE IF CollationRank(x) > CollationRank(y) THEN 1
  ELSE 0

\* A file path docs/<dir...>/<file>.md: the directory segments and the
\* base name.  path.join(folderAbs, ...chain, `${slug}.md`)
pathJoin(folder, chain, slug) == [dir |-> folder \o chain, file |-> slug]

\* path.resolve(p).toLowerCase()
lowerPath(p) ==
  [dir |-> [i \in 1..Len(p.dir) |-> toLowerCase(p.dir[i])],
   file |-> toLowerCase(p.file)]

\* ------------------------------------------------------------------------
\* State
\* ------------------------------------------------------------------------
VARIABLES
  catList,       \* categories.list: sequence of [slug, title, folder]
  docs,          \* docsIndex.bySlug in insertion order: sequence of records
  duplicates,    \* docsIndex.duplicates: slugs found in more than one file
  manifestFile,  \* docs/.readme-structure.json: [kind, categories]
  dryRun,        \* DRY_RUN
  lastOp,        \* the last operation run and what it returned
  edits,         \* number of edits made to the docs folder, by hand or
                 \* by a run of a category flow
  strays,        \* paths of the Markdown files that carry no slug
  moves,         \* number of runs of the action 'moveDocs'
  cli,           \* process.argv of the hierarchy manager: --from and --to
  running,       \* the hierarchy manager is in its main loop
  local,         \* sync: local state
  remote,        \* sync: remote state
  changedPaths,  \* sync: gitChanges.changed (NULL or a set of paths)
  plan,          \* sync: the plan returned by createSyncPlan
  service,       \* the remote service: its categories and documents
  phase,         \* sync: where main is (fetch, a bucket of the plan, ...)
  pending,       \* sync: the items of the running pMap not yet started
  inflight,      \* sync: the remote calls awaiting their response
  settled        \* sync: the remote calls that got their response

vars == <<catList, docs, duplicates, manifestFile, dryRun, lastOp, edits,
          strays, moves, cli, running, local, remote, changedPaths, plan,
          service, phase, pending, inflight, settled>>

moveVars == <<strays, moves>>
mainVars == <<cli, running>>
hierVars == <<catList, docs, duplicates, manifestFile, dryRun, lastOp, edits,
              strays, moves, cli, running>>
syncVars == <<local, remote, changedPaths, plan>>
execVars == <<service, phase, pending, inflight, settled>>

\* ------------------------------------------------------------------------
\* Category index and document index lookups
\* ------------------------------------------------------------------------
SeqToSet(s) == {s[i] : i \in 1..Len(s)}

\* errors.push in a loop: the concatenation of what each iteration pushed
RECURSIVE Concat(_)
Concat(ss) == IF ss = <<>> THEN <<>> ELSE Head(ss) \o Concat(Tail(ss))

\* categories.bySlug: the first record of the list for each lower-cased slug
bySlugHas(cats, key) == \E i \in 1..Len(cats) : toLowerCase(cats[i].slug) = key

bySlugGet(cats, key) ==
  cats[CHOOSE i \in 1..Len(cats) :
         /\ toLowerCase(cats[i].slug) = key
         /\ \A j \in 1..(i - 1) : toLowerCase(cats[j].slug) # key]

\* docsIndex.bySlug.has / get
docsHas(ds, slug) == \E i \in 1..Len(ds) : ds[i].slug = slug

docsGet(ds, slug) == ds[CHOOSE i \in 1..Len(ds) : ds[i].slug = slug]

\* buildAncestryMap.parentOf: get(s)?.parent ? get(s).parent : null
parentOf(ds, s) ==
  IF docsHas(ds, s) /\ Truthy(docsGet(ds, s).parent)
    THEN docsGet(ds, s).parent
    ELSE NULL

\* buildAncestryMap.depthOf: the loop body, d and cur being its variables
RECURSIVE depthLoop(_, _, _)
depthLoop(ds, cur, d) ==
  LET p == parentOf(ds, cur) IN
  IF p = NULL THEN d
  ELSE IF d + 1 > MAX_DOC_DEPTH + 1 THEN d + 1
  ELSE depthLoop(ds, p, d + 1)

depthOf(ds, slug) == depthLoop(ds, slug, 1)

\* computeExpectedPath: the while loop over cursor.  The loop has no cap and
\* its only state is cursor: once cursor takes a value that is already in
\* the chain the loop repeats for ever, which the model reports as
\* "diverges" instead of unrolling it.
RECURSIVE chainLoop(_, _, _)
chainLoop(ds, cursor, folderChain) ==
  IF ~Truthy(cursor) THEN [kind |-> "chain", chain |-> folderChain]
  ELSE IF cursor \in SeqToSet(folderChain)
    THEN [kind |-> "diverges", chain |-> <<>>]
  ELSE chainLoop(ds, parentOf(ds, cursor), <<cursor>> \o folderChain)

NoPath == [dir |-> <<>>, file |-> ""]

computeExpectedPath(doc, ds, cats) ==
  IF ~bySlugHas(cats, toLowerCase(doc.category))
    THEN [kind |-> "null", path |-> NoPath]
  ELSE
    LET walk == chainLoop(ds, doc.parent, <<>>) IN
    IF walk.kind = "diverges" THEN [kind |-> "diverges", path |-> NoPath]
    ELSE [kind |-> "path",
          path |-> pathJoin(bySlugGet(cats, toLowerCase(doc.category)).folder,
                            walk.chain, doc.slug)]

\* ------------------------------------------------------------------------
\* validateStructure
\* ------------------------------------------------------------------------
\* One entry of the errors array
Err(kind, slug, ref) == [kind |-> kind, slug |-> slug, ref |-> ref]

\* validateSameCategoryParent(doc, parentDoc): parentDoc is <<>> for null
\* and <<record>> for a document
validateSameCategoryParent(doc, parentDoc) ==
  IF parentDoc = <<>> THEN <<>>
  ELSE IF doc.category # parentDoc[1].category
    THEN <<Err("ParentCategoryMismatch", doc.slug, parentDoc[1].slug)>>
  ELSE <<>>

\* d.parent ? docs.get(d.parent) : null
parentDocOf(d, ds) ==
  IF Truthy(d.parent) /\ docsHas(ds, d.parent)
    THEN <<docsGet(ds, d.parent)>>
    ELSE <<>>

missingParent(d, ds) ==
  IF Truthy(d.parent) /\ ~docsHas(ds, d.parent)
    THEN <<Err("MissingParent", d.slug, d.parent)>>
    ELSE <<>>

\* the depth test with the bound of the loop cap instead of the maximum
maxDepthExceeded_offByOne(d, ds) ==
  IF depthOf(ds, d.slug) > MAX_DOC_DEPTH + 1
    THEN <<Err("MaxDepthExceeded", d.slug, d.slug)>>
    ELSE <<>>

maxDepthExceeded(d, ds) ==
  IF depthOf(ds, d.slug) > MAX_DOC_DEPTH
    THEN <<Err("MaxDepthExceeded", d.slug, d.slug)>>
    ELSE <<>>

\* the visited-set walk of validateStructure
RECURSIVE cycleLoop(_, _, _, _)
cycleLoop(d, ds, cur, seen) ==
  IF ~Truthy(cur) THEN <<>>
  ELSE IF cur \in seen THEN <<Err("CircularDependency", d.slug, cur)>>
  ELSE cycleLoop(d, ds, parentOf(ds, cur), seen \cup {cur})

circularDependency(d, ds) == cycleLoop(d, ds, d.parent, {d.slug})

missingCategory(d, cats) ==
  IF ~bySlugHas(cats, toLowerCase(d.category))
    THEN <<Err("MissingCategory", d.slug, d.category)>>
    ELSE <<>>

\* the body of the for loop over docs.values()
docErrors(d, ds, cats) ==
  missingParent(d, ds) \o validateSameCategoryParent(d, parentDocOf(d, ds))
    \o maxDepthExceeded(d, ds) \o circularDependency(d, ds)
    \o missingCategory(d, cats)

\* the for loop over docs.values(): the errors pushed, in order
structureErrors(ds, cats) ==
  Concat([i \in 1..Len(ds) |-> docErrors(ds[i], ds, cats)])

\* the comparison without toLowerCase
pathsDiffer_caseSensitive(actualPath, expectedPath) ==
  actualPath # expectedPath

\* validatePhysicalLocation: the comparison of one document
pathsDiffer(actualPath, expectedPath) ==
  lowerPath(actualPath) # lowerPath(expectedPath)

physicalMismatch(doc, ds, cats) ==
  LET expected == computeExpectedPath(doc, ds, cats) IN
  IF expected.kind # "path" THEN <<>>
  ELSE IF pathsDiffer(doc.abs, expected.path)
    THEN <<Err("PhysicalMismatch", doc.slug, doc.category)>>
  ELSE <<>>

validatePhysicalLocation(ds, cats) ==
  Concat([i \in 1..Len(ds) |-> physicalMismatch(ds[i], ds, cats)])

\* validatePhysicalLocation never returns when computeExpectedPath loops
physicalDiverges(ds, cats) ==
  \E i \in 1..Len(ds) : computeExpectedPath(ds[i], ds, cats).kind = "diverges"

\* ------------------------------------------------------------------------
\* validateManifestConsistency
\* ------------------------------------------------------------------------
MissingFile == [kind |-> "missing", categories |-> <<>>]
CorruptFile == [kind |-> "invalid", categories |-> <<>>]
JsonFile(categories) == [kind |-> "json", categories |-> categories]

\* v || null
orNull(v) == IF Truthy(v) THEN v ELSE NULL

\* Map.prototype.set on a map kept as the sequence of its entries in
\* insertion order: an existing key keeps its position
mapHas(m, key) == \E i \in 1..Len(m) : m[i].slug = key
mapGet(m, key) == m[CHOOSE i \in 1..Len(m) : m[i].slug = key]
mapSet(m, entry) ==
  IF mapHas(m, entry.slug)
    THEN [i \in 1..Len(m) |-> IF m[i].slug = entry.slug THEN entry ELSE m[i]]
    ELSE Append(m, entry)

\* flatten(docs, categorySlug), from position i of docs, into manifestDocMap
RECURSIVE flatten(_, _, _, _)
flatten(nodes, i, categorySlug, map) ==
  IF i > Len(nodes) THEN map
  ELSE
    LET node == nodes[i]
        set == mapSet(map, [slug |-> node.slug, category |-> categorySlug,
                            parent |-> orNull(node.parent)])
        sub == flatten(node.children, 1, categorySlug, set)
    IN flatten(nodes, i + 1, categorySlug, sub)

\* manifest.categories.forEach: manifestDocMap after the first i categories
RECURSIVE manifestDocMap(_, _)
manifestDocMap(categories, i) ==
  IF i = 0 THEN <<>>
  ELSE flatten(categories[i].docs, 1, categories[i].slug,
               manifestDocMap(categories, i - 1))

\* manifestCategorySlugs: a Set, in insertion order
RECURSIVE manifestCategorySlugs(_, _)
manifestCategorySlugs(categories, i) ==
  IF i = 0 THEN <<>>
  ELSE LET before == manifestCategorySlugs(categories, i - 1) IN
       IF categories[i].slug \in SeqToSet(before) THEN before
       ELSE Append(before, categories[i].slug)

\* [...categories.bySlug.keys()].map(k => k.toLowerCase()), as a Set
RECURSIVE fileSystemCategorySlugs(_, _)
fileSystemCategorySlugs(cats, i) ==
  IF i = 0 THEN <<>>
  ELSE LET before == fileSystemCategorySlugs(cats, i - 1) IN
       IF toLowerCase(cats[i].slug) \in SeqToSet(before) THEN before
       ELSE Append(before, toLowerCase(cats[i].slug))

manifestOnlyCategories(mcs, fss) ==
  Concat([i \in 1..Len(mcs) |->
    IF toLowerCase(mcs[i]) \notin SeqToSet(fss)
      THEN <<Err("ManifestCategoryNotOnDisk", mcs[i], mcs[i])>> ELSE <<>>])

diskOnlyCategories(mcs, fss) ==
  Concat([i \in 1..Len(fss) |->
    IF fss[i] \notin SeqToSet(mcs)
      THEN <<Err("CategoryNotInManifest", fss[i], fss[i])>> ELSE <<>>])

docAgainstManifest(doc, mdm) ==
  IF ~mapHas(mdm, doc.slug)
    THEN <<Err("DocNotInManifest", doc.slug, doc.slug)>>
  ELSE
    LET manifestDoc == mapGet(mdm, doc.slug) IN
    (IF doc.category # manifestDoc.category
       THEN <<Err("ManifestCategoryDiffers", doc.slug, manifestDoc.category)>>
       ELSE <<>>)
    \o
    (IF doc.parent # manifestDoc.parent
       THEN <<Err("ManifestParentDiffers", doc.slug, manifestDoc.parent)>>
       ELSE <<>>)

diskAgainstManifest(ds, mdm) ==
  Concat([i \in 1..Len(ds) |-> docAgainstManifest(ds[i], mdm)])

\* the check without the loop over manifestDocMap.keys()
manifestOnlyDocs_skipped(ds, mdm) == <<>>

manifestOnlyDocs(ds, mdm) ==
  Concat([i \in 1..Len(mdm) |->
    IF ~docsHas(ds, mdm[i].slug)
      THEN <<Err("ManifestDocNotOnDisk", mdm[i].slug, mdm[i].slug)>>
      ELSE <<>>])

validateManifestConsistency(ds, cats, file) ==
  IF file.kind = "missing" THEN <<Err("ManifestMissing", "", "")>>
  ELSE IF file.kind = "invalid" THEN <<Err("ManifestInvalid", "", "")>>
  ELSE
    LET mdm == manifestDocMap(file.categories, Len(file.categories))
        mcs == manifestCategorySlugs(file.categories, Len(file.categories))
        fss == fileSystemCategorySlugs(cats, Len(cats))
    IN manifestOnlyCategories(mcs, fss) \o diskOnlyCategories(mcs, fss)
         \o diskAgainstManifest(ds, mdm) \o manifestOnlyDocs(ds, mdm)

\* ------------------------------------------------------------------------
\* validateStructure: what the call does
\*   "duplicate"  requireUniqueSlugs threw 'Duplicate slugs found'
\*   "hang"       the call never returns (computeExpectedPath loops)
\*   "raised"     the aggregated error, with its numbered list `errors`
\*   "ok"         returned silently
\* ------------------------------------------------------------------------
Result(outcome, errors) == [outcome |-> outcome, errors |-> errors]

\* requireUniqueSlugs
requireUniqueSlugs(dups) == dups = {}

validateStructure(cats, ds, dups, file, skipManifestCheck) ==
  IF ~requireUniqueSlugs(dups) THEN Result("duplicate", <<>>)
  ELSE IF physicalDiverges(ds, cats) THEN Result("hang", <<>>)
  ELSE
    LET errors == structureErrors(ds, cats)
                    \o validatePhysicalLocation(ds, cats)
                    \o (IF skipManifestCheck THEN <<>>
                        ELSE validateManifestConsistency(ds, cats, file))
    IN IF Len(errors) > 0 THEN Result("raised", errors)
       ELSE Result("ok", <<>>)

\* ------------------------------------------------------------------------
\* rebuildManifest
\* ------------------------------------------------------------------------
\* Array.prototype.sort is stable: insertion of each element, in input
\* order, after the elements that do not compare greater than it
categoryCompare(a, b) == localeCompare(a.slug, b.slug)

RECURSIVE insertCategory(_, _)
insertCategory(sorted, c) ==
  IF sorted = <<>> THEN <<c>>
  ELSE IF categoryCompare(sorted[Len(sorted)], c) <= 0 THEN Append(sorted, c)
  ELSE Append(insertCategory(SubSeq(sorted, 1, Len(sorted) - 1), c),
              sorted[Len(sorted)])

RECURSIVE sortCategories(_, _)
sortCategories(cats, i) ==
  IF i = 0 THEN <<>>
  ELSE insertCategory(sortCategories(cats, i - 1), cats[i])

\* typeof d.order === 'number' ? d.order : 9999
orderOrDefault(order) == IF order = NoOrder THEN DEFAULT_ORDER ELSE order

\* d.title || d.slug
titleOrSlug(d) == IF d.title = "" THEN d.slug ELSE d.title

\* the comparator without the slug tie-break
nodeCompare_orderOnly(a, b) ==
  orderOrDefault(a.order) - orderOrDefault(b.order)

\* the comparator of sortTree: (a.order - b.order) || a.slug.localeCompare(b.slug)
nodeCompare(a, b) ==
  IF orderOrDefault(a.order) - orderOrDefault(b.order) # 0
    THEN orderOrDefault(a.order) - orderOrDefault(b.order)
    ELSE localeCompare(a.slug, b.slug)

RECURSIVE insertNode(_, _)
insertNode(sorted, n) ==
  IF sorted = <<>> THEN <<n>>
  ELSE IF nodeCompare(sorted[Len(sorted)], n) <= 0 THEN Append(sorted, n)
  ELSE Append(insertNode(SubSeq(sorted, 1, Len(sorted) - 1), n),
              sorted[Len(sorted)])

RECURSIVE sortLevel(_, _)
sortLevel(arr, i) ==
  IF i = 0 THEN <<>>
  ELSE insertNode(sortLevel(arr, i - 1), arr[i])

\* nodeMap.get(parent).children: the documents pushed, in docs order
childrenOf(ds, slug) ==
  SelectSeq(ds, LAMBDA d : Truthy(d.parent) /\ d.parent = slug)

\* byCategory.get(c.slug): the parentless documents pushed under the key
\* c.slug, in docs order (the key is the category string of the document)
rootsOf(ds, cats, categorySlug) ==
  SelectSeq(ds, LAMBDA d : /\ bySlugHas(cats, toLowerCase(d.category))
                           /\ d.category = categorySlug
                           /\ ~Truthy(d.parent))

\* sortTree followed by buildNestedForManifestWithParent
RECURSIVE buildNestedForManifestWithParent(_, _, _)
buildNestedForManifestWithParent(ds, tree, currentParentSlug) ==
  LET level == sortLevel(tree, Len(tree)) IN
  [i \in 1..Len(level) |->
    [slug |-> level[i].slug,
     title |-> titleOrSlug(level[i]),
     order |-> orderOrDefault(level[i].order),
     parent |-> currentParentSlug,
     children |-> buildNestedForManifestWithParent(
                    ds, childrenOf(ds, level[i].slug), level[i].slug)]]

\* the manifest object of rebuildManifest
buildManifest(ds, cats) ==
  LET sorted == sortCategories(cats, Len(cats)) IN
  [i \in 1..Len(sorted) |->
    [slug |-> sorted[i].slug,
     title |-> sorted[i].title,
     docs |-> buildNestedForManifestWithParent(
                ds, rootsOf(ds, cats, sorted[i].slug), NULL)]]

\* rebuildManifest without the call of validateStructure
rebuildManifest_unvalidated(ds, cats, dups, file, dry) ==
  IF dry THEN [result |-> Result("ok", <<>>), file |-> file]
  ELSE [result |-> Result("ok", <<>>),
        file |-> JsonFile(buildManifest(ds, cats))]

\* rebuildManifest: the result of the validation it runs first, and the
\* content of the manifest file afterwards
rebuildManifest(ds, cats, dups, file, dry) ==
  LET check == validateStructure(cats, ds, dups, file, TRUE) IN
  IF check.outcome # "ok" THEN [result |-> check, file |-> file]
  ELSE IF dry THEN [result |-> check, file |-> file]
  ELSE [result |-> check, file |-> JsonFile(buildManifest(ds, cats))]

\* ------------------------------------------------------------------------
\* The docs folder: the category markers and documents the model draws from
\* ------------------------------------------------------------------------
DocSlugs == {"a", "b", "c", "d"}

\* values of the front matter field `parent`: absent, empty, a document,
\* or a slug that no document has
ParentValues == {NULL, EMPTY, "zz"} \cup DocSlugs

\* values of the front matter field `category`; no marker file has slug "x"
CategoryValues == {"g", "G", "h", "x"}

OrderValues == {NoOrder} \cup (1..MaxOrder)

Category(slug, title, folder) ==
  [slug |-> slug, title |-> title, folder |-> folder]

Doc(slug, title, category, parent, order, abs) ==
  [slug |-> slug, title |-> title, category |-> category, parent |-> parent,
   order |-> order, abs |-> abs]

\* what loadCategories returns for three layouts of the docs folder
PlainCategories ==
  <<Category("g", "Guides", <<"g">>), Category("h", "How-to", <<"h">>)>>

\* a marker file whose slug has an upper-case letter
UpperCategories ==
  <<Category("G", "Guides", <<"g">>), Category("h", "How-to", <<"h">>)>>

\* two marker files with the same slug, in the folders h and k
TwiceCategories ==
  <<Category("g", "Guides", <<"g">>), Category("h", "How-to", <<"h">>),
    Category("h", "How-to (copy)", <<"k">>)>>

CategoryLayouts == {PlainCategories, UpperCategories, TwiceCategories}

\* what loadDocsIndex returns for three layouts: a chain of three documents
\* and a root, a chain of four documents, and four roots
ChainDocs ==
  <<Doc("b", "B", "g", "a", NoOrder, [dir |-> <<"g", "a">>, file |-> "b"]),
    Doc("a", "", "g", NULL, 1, [dir |-> <<"g">>, file |-> "a"]),
    Doc("d", "D", "h", NULL, NoOrder, [dir |-> <<"h">>, file |-> "d"]),
    Doc("c", "C", "g", "b", NoOrder, [dir |-> <<"g", "a", "b">>, file |-> "c"])>>

DeepDocs ==
  <<Doc("a", "", "g", NULL, 1, [dir |-> <<"g">>, file |-> "a"]),
    Doc("b", "B", "g", "a", NoOrder, [dir |-> <<"g", "a">>, file |-> "b"]),
    Doc("c", "C", "g", "b", NoOrder, [dir |-> <<"g", "a", "b">>, file |-> "c"]),
    Doc("d", "D", "g", "c", NoOrder,
        [dir |-> <<"g", "a", "b", "c">>, file |-> "d"])>>

FlatDocs ==
  <<Doc("c", "C", "g", NULL, NoOrder, [dir |-> <<"g">>, file |-> "c"]),
    Doc("a", "", "g", NULL, NoOrder, [dir |-> <<"g">>, file |-> "a"]),
    Doc("b", "B", "g", NULL, 1, [dir |-> <<"g">>, file |-> "b"]),
    Doc("d", "D", "h", NULL, NoOrder, [dir |-> <<"h">>, file |-> "d"])>>

DocLayouts == {ChainDocs, DeepDocs, FlatDocs}

\* String.prototype.toUpperCase on the directory names of the model
toUpperCase(s) ==
  CASE s = "g" -> "G"
    [] s = "a" -> "A"
    [] OTHER -> s

\* where a user may move the file of a document: to the place the validator
\* expects, to that place with the directories spelled in upper case, or to
\* the folder k
MoveTargets(doc, ds, cats) ==
  LET expected == computeExpectedPath(doc, ds, cats) IN
  {[dir |-> <<"k">>, file |-> doc.slug]}
    \cup (IF expected.kind = "path"
            THEN {expected.path,
                  [dir |-> [i \in 1..Len(expected.path.dir) |->
                              toUpperCase(expected.path.dir[i])],
                   file |-> expected.path.file]}
            ELSE {})

\* ------------------------------------------------------------------------
\* Bulk move (doc-manager.mjs)
\* ------------------------------------------------------------------------
\* collectDescendants: the slugs below rootSlug, depth first, in the order
\* of docsBySlug.values()
RECURSIVE collectDescendants(_, _)
collectDescendants(rootSlug, ds) ==
  Concat([i \in 1..Len(ds) |->
            IF ds[i].parent = rootSlug
              THEN <<ds[i].slug>> \o collectDescendants(ds[i].slug, ds)
              ELSE <<>>])

\* validateMaxDepth without the throw
validateMaxDepth_unchecked(targetParentSlug, ds) == <<>>

\* validateMaxDepth: the error thrown, if any
validateMaxDepth(targetParentSlug, ds) ==
  IF ~Truthy(targetParentSlug) THEN <<>>
  ELSE IF depthOf(ds, targetParentSlug) + 1 > MAX_DOC_DEPTH
    THEN <<Err("MaxDepthOnMove", targetParentSlug, targetParentSlug)>>
  ELSE <<>>

\* assertDestinationExists: destCategory and destDoc, each <<>> for null
assertDestinationExists(destination, cats, ds) ==
  LET destCategory == IF bySlugHas(cats, toLowerCase(destination))
                        THEN <<bySlugGet(cats, toLowerCase(destination))>>
                        ELSE <<>>
      destDoc == IF docsHas(ds, destination)
                   THEN <<docsGet(ds, destination)>>
                   ELSE <<>>
  IN IF destCategory # <<>> /\ destDoc # <<>>
       THEN [destCategory |-> destCategory, destDoc |-> <<>>]
       ELSE [destCategory |-> destCategory, destDoc |-> destDoc]

targetDocPath(categoryFolderAbs, ancestrySlugs, slug) ==
  pathJoin(categoryFolderAbs, ancestrySlugs, slug)

\* calculateNewPathChain: the while loop, which throws once the chain is
\* longer than MAX_DOC_DEPTH
RECURSIVE newChainLoop(_, _, _)
newChainLoop(working, cursor, chain) ==
  IF ~Truthy(cursor) THEN [kind |-> "chain", chain |-> chain]
  ELSE IF Len(chain) + 1 > MAX_DOC_DEPTH
    THEN [kind |-> "error", chain |-> <<>>]
  ELSE newChainLoop(working, parentOf(working, cursor), <<cursor>> \o chain)

calculateNewPathChain(docSlug, working) ==
  newChainLoop(working, parentOf(working, docSlug), <<>>)

\* Map.prototype.set on a key that the document map holds
setDoc(ds, rec) ==
  [i \in 1..Len(ds) |-> IF ds[i].slug = rec.slug THEN rec ELSE ds[i]]

\* step 5, "Decide child behavior"
moveChildrenOf(descendants, childMode, perDocChoice) ==
  IF descendants = <<>> THEN TRUE
  ELSE IF childMode = "move_all" THEN TRUE
  ELSE IF childMode = "promote_all" THEN FALSE
  ELSE perDocChoice

\* step 5, the body of the loop over sourceSlugs: the plan pushed, or the
\* error thrown
planOf(sourceSlug, dest, cats, ds, childMode, perDocChoice) ==
  LET toCategory == dest.destCategory # <<>>
      targetCategorySlug ==
        IF toCategory THEN dest.destCategory[1].slug
        ELSE dest.destDoc[1].category
      targetParentSlug == IF toCategory THEN NULL ELSE dest.destDoc[1].slug
      hasOwner == toCategory \/ bySlugHas(cats, toLowerCase(targetCategorySlug))
      targetCategoryFolderAbs ==
        IF toCategory THEN dest.destCategory[1].folder
        ELSE IF hasOwner
          THEN bySlugGet(cats, toLowerCase(targetCategorySlug)).folder
        ELSE <<>>
      tempDoc == [docsGet(ds, sourceSlug) EXCEPT
                    !.category = targetCategorySlug,
                    !.parent = targetParentSlug]
      targetParentDoc ==
        IF Truthy(targetParentSlug) /\ docsHas(ds, targetParentSlug)
          THEN <<docsGet(ds, targetParentSlug)>>
          ELSE <<>>
      descendants == collectDescendants(sourceSlug, ds)
      errors ==
        IF ~docsHas(ds, sourceSlug)
          THEN <<Err("SourceNotFound", sourceSlug, sourceSlug)>>
        ELSE IF ~hasOwner
          THEN <<Err("CategoryRecordNotFound", sourceSlug, targetCategorySlug)>>
        ELSE IF validateSameCategoryParent(tempDoc, targetParentDoc) # <<>>
          THEN validateSameCategoryParent(tempDoc, targetParentDoc)
        ELSE validateMaxDepth(targetParentSlug, ds)
  IN [errors |-> errors,
      sourceSlug |-> sourceSlug,
      targetCategorySlug |-> targetCategorySlug,
      targetParentSlug |-> targetParentSlug,
      targetCategoryFolderAbs |-> targetCategoryFolderAbs,
      descendants |-> descendants,
      moveChildren |-> moveChildrenOf(descendants, childMode, perDocChoice)]

\* step 6, the loop over slugsToMove: acc is [working, fileOps, errors]
RECURSIVE moveLoop(_, _, _, _)
moveLoop(movePlan, slugsToMove, ds, acc) ==
  IF slugsToMove = <<>> \/ acc.errors # <<>> THEN acc
  ELSE
    LET s == Head(slugsToMove)
        doc == docsGet(acc.working, s)
        newParent == IF s = movePlan.sourceSlug THEN movePlan.targetParentSlug
                     ELSE doc.parent
        working == IF s # movePlan.sourceSlug
                     THEN setDoc(acc.working,
                                 [doc EXCEPT !.category = movePlan.targetCategorySlug])
                     ELSE acc.working
        finalChain == calculateNewPathChain(s, working)
        op == [slug |-> s,
               from |-> docsGet(ds, s).abs,
               to |-> targetDocPath(movePlan.targetCategoryFolderAbs,
                                    finalChain.chain, s),
               newCategory |-> movePlan.targetCategorySlug,
               setParentTo |-> newParent]
    IN IF finalChain.kind = "error"
         THEN [acc EXCEPT !.working = working,
                          !.errors = <<Err("PathChainError", s, s)>>]
         ELSE moveLoop(movePlan, Tail(slugsToMove), ds,
                       [acc EXCEPT !.working = working,
                                   !.fileOps = Append(acc.fileOps, op)])

\* step 6, "Promotions": the working copy after the loop over descendants
RECURSIVE promoteLoop(_, _)
promoteLoop(children, working) ==
  IF children = <<>> THEN working
  ELSE promoteLoop(Tail(children),
                   setDoc(working,
                          [docsGet(working, Head(children)) EXCEPT
                             !.parent = NULL, !.order = DEFAULT_ORDER]))

promotionsOf(movePlan, ds) ==
  [i \in 1..Len(movePlan.descendants) |->
     [slug |-> movePlan.descendants[i],
      fromParent |-> docsGet(ds, movePlan.descendants[i]).parent,
      category |-> docsGet(ds, movePlan.descendants[i]).category]]

\* step 6, the loop over plans: acc is [working, fileOps, promotions, errors]
RECURSIVE expandPlans(_, _, _)
expandPlans(plans, ds, acc) ==
  IF plans = <<>> \/ acc.errors # <<>> THEN acc
  ELSE
    LET movePlan == Head(plans)
        rootDocCopy == [docsGet(acc.working, movePlan.sourceSlug) EXCEPT
                          !.category = movePlan.targetCategorySlug,
                          !.parent = movePlan.targetParentSlug]
        slugsToMove == <<movePlan.sourceSlug>>
                         \o (IF movePlan.moveChildren THEN movePlan.descendants
                             ELSE <<>>)
        moved == moveLoop(movePlan, slugsToMove, ds,
                          [working |-> setDoc(acc.working, rootDocCopy),
                           fileOps |-> acc.fileOps,
                           errors |-> <<>>])
        promote == ~movePlan.moveChildren /\ movePlan.descendants # <<>>
    IN expandPlans(Tail(plans), ds,
         [working |-> IF promote /\ moved.errors = <<>>
                        THEN promoteLoop(movePlan.descendants, moved.working)
                        ELSE moved.working,
          fileOps |-> moved.fileOps,
          promotions |-> IF promote /\ moved.errors = <<>>
                           THEN acc.promotions \o promotionsOf(movePlan, ds)
                           ELSE acc.promotions,
          errors |-> moved.errors])

\* fs.pathExists on the docs folder: the files of the indexed documents and
\* the Markdown files that carry no slug
pathExists(p, files, others) ==
  p \in others \/ \E i \in 1..Len(files) : files[i].abs = p

\* step 7 without the check
pathConflicts_unchecked(fileOps, files, others) == <<>>

\* step 7: the error thrown for the first operation whose target is taken
pathConflicts(fileOps, files, others) ==
  LET taken == SelectSeq(fileOps,
                         LAMBDA op : /\ pathExists(op.to, files, others)
                                     /\ op.to # op.from)
  IN IF taken = <<>> THEN <<>>
     ELSE <<Err("DestinationOccupied", taken[1].slug, taken[1].slug)>>

\* writeDoc(info.abs, content, fm) of step 9 with fm.parent alone rewritten
writePromoted_parentOnly(files, p) ==
  [i \in 1..Len(files) |->
     IF files[i].abs = p THEN [files[i] EXCEPT !.parent = NULL]
     ELSE files[i]]

\* step 9, writeDoc(info.abs, content, fm): the front matter of the file at
\* p rewritten in place
writePromoted(files, p) ==
  [i \in 1..Len(files) |->
     IF files[i].abs = p
       THEN [files[i] EXCEPT !.parent = NULL, !.order = DEFAULT_ORDER]
       ELSE files[i]]

\* one iteration of step 9 or of step 10, as it is run
Applied(kind, slug) == [kind |-> kind, slug |-> slug]

\* step 9, the loop over promotions: acc is [index, files, errors, steps],
\* steps the iterations run so far
RECURSIVE applyPromotions(_, _, _)
applyPromotions(promotions, dry, acc) ==
  IF promotions = <<>> THEN acc
  ELSE
    LET info == docsGet(acc.index, Head(promotions).slug) IN
    applyPromotions(Tail(promotions), dry,
      [index |-> setDoc(acc.index,
                        [info EXCEPT !.parent = NULL, !.order = DEFAULT_ORDER]),
       files |-> IF dry THEN acc.files ELSE writePromoted(acc.files, info.abs),
       errors |-> acc.errors,
       steps |-> Append(acc.steps, Applied("promotion", info.slug))])

\* step 10, writeDoc(op.to, content, fm) and fs.remove(op.from): the file
\* read at op.from is written at op.to with the new category and parent
writeMoved(files, op) ==
  [i \in 1..Len(files) |->
     IF files[i].abs = op.from
       THEN [files[i] EXCEPT !.abs = op.to, !.category = op.newCategory,
                             !.parent = op.setParentTo]
       ELSE files[i]]

\* step 10, the loop over fileOps: acc is [index, files, errors, steps];
\* readDoc throws when no file is at op.from any more
RECURSIVE applyMoves(_, _, _)
applyMoves(fileOps, dry, acc) ==
  IF fileOps = <<>> \/ acc.errors # <<>> THEN acc
  ELSE
    LET op == Head(fileOps) IN
    IF ~pathExists(op.from, acc.files, {})
      THEN [acc EXCEPT !.errors = <<Err("ReadFailed", op.slug, op.slug)>>]
    ELSE applyMoves(Tail(fileOps), dry,
           [index |-> setDoc(acc.index,
                             [docsGet(acc.index, op.slug) EXCEPT
                                !.abs = op.to, !.category = op.newCategory,
                                !.parent = op.setParentTo]),
            files |-> IF dry THEN acc.files ELSE writeMoved(acc.files, op),
            errors |-> <<>>,
            steps |-> Append(acc.steps, Applied("move", op.slug))])

\* steps 9 and 10 with the file moves run first
applyPlan_movesFirst(promotions, fileOps, dry, ds) ==
  applyPromotions(promotions, dry,
    applyMoves(fileOps, dry,
      [index |-> ds, files |-> ds, errors |-> <<>>, steps |-> <<>>]))

\* steps 9 and 10: the promotions, then the file moves
applyPlan(promotions, fileOps, dry, ds) ==
  applyMoves(fileOps, dry,
    applyPromotions(promotions, dry,
      [index |-> ds, files |-> ds, errors |-> <<>>, steps |-> <<>>]))

\* What bulkMoveFlow leaves: how it ended, the error thrown, the plan it
\* showed, the iterations of steps 9 and 10 it ran, the in-memory index and
\* the files of the docs folder
MoveResult(outcome, errors, fileOps, promotions, steps, index, files) ==
  [outcome |-> outcome, errors |-> errors, fileOps |-> fileOps,
   promotions |-> promotions, steps |-> steps, index |-> index,
   files |-> files]

\* bulkMoveFlow(categories, docsIndex) for the answers given at its prompts:
\* sourceSlugs after split and filter, the trimmed destination, the child
\* mode, the answer to each per-document question and the confirmation
bulkMoveFlow(cats, ds, others, answers, dry) ==
  LET sourceSlugs == answers.sourceSlugs
      destination == answers.destination
      childMode == answers.childMode
      perDocChoice == answers.perDocChoice
      confirm == answers.confirm
      Thrown(errors) == MoveResult("raised", errors, <<>>, <<>>, <<>>, ds, ds)
      dest == assertDestinationExists(destination, cats, ds)
      plans == [k \in 1..Len(sourceSlugs) |->
                  planOf(sourceSlugs[k], dest, cats, ds, childMode,
                         perDocChoice[k])]
      rejected == SelectSeq(plans, LAMBDA movePlan : movePlan.errors # <<>>)
      expanded == expandPlans(plans, ds,
                              [working |-> ds, fileOps |-> <<>>,
                               promotions |-> <<>>, errors |-> <<>>])
      conflicts == pathConflicts(expanded.fileOps, ds, others)
      applied == applyPlan(expanded.promotions, expanded.fileOps, dry, ds)
  IN IF sourceSlugs = <<>> THEN Thrown(<<Err("NoSources", "", "")>>)
     ELSE IF destination = EMPTY
       THEN Thrown(<<Err("NoDestination", "", "")>>)
     ELSE IF dest.destCategory = <<>> /\ dest.destDoc = <<>>
       THEN Thrown(<<Err("DestinationUnknown", destination, destination)>>)
     ELSE IF rejected # <<>> THEN Thrown(rejected[1].errors)
     ELSE IF expanded.errors # <<>> THEN Thrown(expanded.errors)
     ELSE IF conflicts # <<>>
       THEN MoveResult("raised", conflicts, expanded.fileOps,
                       expanded.promotions, <<>>, ds, ds)
     ELSE IF ~confirm
       THEN MoveResult("aborted", <<>>, expanded.fileOps,
                       expanded.promotions, <<>>, ds, ds)
     ELSE MoveResult(IF applied.errors # <<>> THEN "raised" ELSE "ok",
                     applied.errors, expanded.fileOps, expanded.promotions,
                     applied.steps, applied.index, applied.files)

\* ------------------------------------------------------------------------
\* Bulk move: the docs folders it starts from and the answers it is given
\* ------------------------------------------------------------------------
\* two chains of two documents, one in each category
PairDocs ==
  <<Doc("a", "", "g", NULL, 1, [dir |-> <<"g">>, file |-> "a"]),
    Doc("b", "B", "g", "a", NoOrder, [dir |-> <<"g", "a">>, file |-> "b"]),
    Doc("c", "C", "h", NULL, 2, [dir |-> <<"h">>, file |-> "c"]),
    Doc("d", "D", "h", "c", 1, [dir |-> <<"h", "c">>, file |-> "d"])>>

MoveLayouts == {ChainDocs, PairDocs}

\* Markdown files without a slug, which loadDocsIndex skips
StrayFiles ==
  {[dir |-> <<"g">>, file |-> "c"], [dir |-> <<"g", "a">>, file |-> "d"]}

StrayLayouts == {{}, StrayFiles}

\* the answer to 'Enter source doc slugs'
SourceLists ==
  {<<>>}
    \cup {<<s>> : s \in {"a", "b", "c", "d", "zz"}}
    \cup {<<"b", "d">>, <<"d", "zz">>, <<"zz", "d">>, <<"c", "d">>,
          <<"d", "d">>}

\* the answer to 'Enter destination slug'
Destinations == {EMPTY, "g", "h", "a", "b", "c", "zz"}

\* the answers to 'How should I handle them?' and to 'Move them too?'
ChildAnswers ==
  {[childMode |-> "move_all", perDocChoice |-> <<TRUE, TRUE>>],
   [childMode |-> "promote_all", perDocChoice |-> <<FALSE, FALSE>>],
   [childMode |-> "ask", perDocChoice |-> <<TRUE, FALSE>>]}

\* step 1: the source slugs of --from when given, the answer to the prompt
\* otherwise
SourcesAsked(argv) == IF argv.from # <<>> THEN {argv.from} ELSE SourceLists

\* step 2: the destination of --to when given, the answer to the prompt
\* otherwise
DestinationsAsked(argv) == IF argv.to # EMPTY THEN {argv.to} ELSE Destinations

\* ------------------------------------------------------------------------
\* Sync: the states the planner compares
\* ------------------------------------------------------------------------
STRUCTURE_MANIFEST == ".readme-structure.json"

NoPlan ==
  [made |-> FALSE, categoryDeletions |-> <<>>, docDeletions |-> <<>>,
   categoryCreations |-> <<>>, categoryUpdates |-> <<>>,
   docUpdates |-> <<>>, docCreations |-> <<>>]

NoState == [categories |-> <<>>, docs |-> <<>>]
NoChanges == [known |-> TRUE, paths |-> {}]

\* createSyncPlan.  The Maps local.categories, remote.categories, local.docs
\* and remote.docs are the sequences of their values in insertion order;
\* gitChanges.changed is [known, paths], known = FALSE standing for null.
\* the gate open only for a known set that holds the manifest path
isStructureFileModified_knownOnly(changed) ==
  changed.known /\ STRUCTURE_MANIFEST \in changed.paths

isStructureFileModified(changed) ==
  ~changed.known \/ STRUCTURE_MANIFEST \in changed.paths

isMdFileModifiedByGit(changed, localDoc) ==
  ~changed.known \/ localDoc.absPath \in changed.paths

categoryDeletions(loc, rem, changed) ==
  LET gone == SelectSeq(rem.categories,
                        LAMBDA cat : ~mapHas(loc.categories, cat.slug))
  IN [i \in 1..Len(gone) |-> [slug |-> gone[i].slug, remoteId |-> gone[i].id]]

categoryPush(localCat) ==
  [slug |-> localCat.slug, title |-> localCat.title, type |-> localCat.type]

\* the creation pushed whatever the changed-path set
categoryCreations_ungated(loc, rem, changed) ==
  LET new == SelectSeq(loc.categories,
                       LAMBDA localCat : ~mapHas(rem.categories, localCat.slug))
  IN [i \in 1..Len(new) |-> categoryPush(new[i])]

categoryCreations(loc, rem, changed) ==
  LET new == SelectSeq(loc.categories,
                       LAMBDA localCat :
                         /\ ~mapHas(rem.categories, localCat.slug)
                         /\ isStructureFileModified(changed))
  IN [i \in 1..Len(new) |-> categoryPush(new[i])]

categoryUpdates(loc, rem, changed) ==
  LET upd == SelectSeq(loc.categories,
                       LAMBDA localCat :
                         /\ mapHas(rem.categories, localCat.slug)
                         /\ isStructureFileModified(changed)
                         /\ \/ localCat.title # mapGet(rem.categories, localCat.slug).title
                            \/ localCat.type # mapGet(rem.categories, localCat.slug).type)
  IN [i \in 1..Len(upd) |-> categoryPush(upd[i])]

docDeletions(loc, rem, changed) ==
  LET gone == SelectSeq(rem.docs, LAMBDA doc : ~mapHas(loc.docs, doc.slug))
  IN [i \in 1..Len(gone) |-> [slug |-> gone[i].slug]]

docPush(localDoc) == [slug |-> localDoc.slug, doc |-> localDoc]

\* the creation pushed only for a file of the changed-path set
docCreations_gated(loc, rem, changed) ==
  LET new == SelectSeq(loc.docs,
                       LAMBDA localDoc :
                         /\ ~mapHas(rem.docs, localDoc.slug)
                         /\ isMdFileModifiedByGit(changed, localDoc))
  IN [i \in 1..Len(new) |-> docPush(new[i])]

docCreations(loc, rem, changed) ==
  LET new == SelectSeq(loc.docs,
                       LAMBDA localDoc : ~mapHas(rem.docs, localDoc.slug))
  IN [i \in 1..Len(new) |-> docPush(new[i])]

\* the comparison without the order field
attributeChanged_withoutOrder(localDoc, remoteDoc) ==
  \/ localDoc.title # remoteDoc.title
  \/ localDoc.categorySlug # remoteDoc.categorySlug
  \/ localDoc.parentDocSlug # remoteDoc.parentDocSlug
  \/ localDoc.hidden # remoteDoc.hidden

attributeChanged(localDoc, remoteDoc) ==
  \/ localDoc.title # remoteDoc.title
  \/ localDoc.categorySlug # remoteDoc.categorySlug
  \/ localDoc.parentDocSlug # remoteDoc.parentDocSlug
  \/ localDoc.order # remoteDoc.order
  \/ localDoc.hidden # remoteDoc.hidden

docUpdates(loc, rem, changed) ==
  LET upd == SelectSeq(loc.docs,
                       LAMBDA localDoc :
                         /\ mapHas(rem.docs, localDoc.slug)
                         /\ \/ isMdFileModifiedByGit(changed, localDoc)
                            \/ attributeChanged(localDoc,
                                                mapGet(rem.docs, localDoc.slug)))
  IN [i \in 1..Len(upd) |-> docPush(upd[i])]

createSyncPlan(loc, rem, changed) ==
  [made |-> TRUE,
   categoryDeletions |-> categoryDeletions(loc, rem, changed),
   docDeletions |-> docDeletions(loc, rem, changed),
   categoryCreations |-> categoryCreations(loc, rem, changed),
   categoryUpdates |-> categoryUpdates(loc, rem, changed),
   docUpdates |-> docUpdates(loc, rem, changed),
   docCreations |-> docCreations(loc, rem, changed)]

\* The local and remote states the model draws from
Opt(S) == {<<>>} \cup {<<r>> : r \in S}

LocalCategory(slug, title, type) ==
  [slug |-> slug, title |-> title, type |-> type]

RemoteCategory(slug, id, title, type) ==
  [slug |-> slug, id |-> id, title |-> title, type |-> type]

LocalCategorySeqs ==
  {x \o y \o z :
     x \in Opt({LocalCategory("g", "Guides", "guide")}),
     y \in Opt({LocalCategory("h", "How-to", "guide"),
                LocalCategory("h", "How to", "guide"),
                LocalCategory("h", "How-to", "link")}),
     z \in Opt({LocalCategory("k", "Kits", "guide")})}

RemoteCategorySeqs ==
  {x \o y \o z :
     x \in Opt({RemoteCategory("g", "id-g", "Guides", "guide")}),
     y \in Opt({RemoteCategory("h", "id-h", "How-to", "guide")}),
     z \in Opt({RemoteCategory("k", "id-k", "Kits", "guide")})}

LocalDoc(slug, title, categorySlug, parentDocSlug, order, hidden) ==
  [slug |-> slug, title |-> title, categorySlug |-> categorySlug,
   parentDocSlug |-> parentDocSlug, order |-> order, hidden |-> hidden,
   absPath |-> IF slug = "a" THEN "a.md" ELSE "b.md"]

RemoteDoc(slug, title, categorySlug, parentDocSlug, order, hidden) ==
  [slug |-> slug, title |-> title, categorySlug |-> categorySlug,
   parentDocSlug |-> parentDocSlug, order |-> order, hidden |-> hidden]

\* document a as on the remote, and with one attribute changed
LocalDocsA ==
  {LocalDoc("a", "A", "h", NULL, 1, FALSE),
   LocalDoc("a", "A2", "h", NULL, 1, FALSE),
   LocalDoc("a", "A", "g", NULL, 1, FALSE),
   LocalDoc("a", "A", "h", "b", 1, FALSE),
   LocalDoc("a", "A", "h", NULL, 2, FALSE),
   LocalDoc("a", "A", "h", NULL, 1, TRUE)}

LocalDocsB == {LocalDoc("b", "B", "h", "a", 1, FALSE)}

LocalDocSeqs ==
  {x \o y : x \in Opt(LocalDocsA), y \in Opt(LocalDocsB)}
    \cup {y \o x : x \in Opt(LocalDocsA), y \in Opt(LocalDocsB)}

RemoteDocSeqs ==
  {x \o y :
     x \in Opt({RemoteDoc("a", "A", "h", NULL, 1, FALSE)}),
     y \in Opt({RemoteDoc("b", "B", "h", "a", 1, FALSE)})}

ChangeSets ==
  {[known |-> FALSE, paths |-> {}],
   [known |-> TRUE, paths |-> {}],
   [known |-> TRUE, paths |-> {STRUCTURE_MANIFEST}],
   [known |-> TRUE, paths |-> {"a.md"}],
   [known |-> TRUE, paths |-> {STRUCTURE_MANIFEST, "a.md", "b.md"}]}

\* ------------------------------------------------------------------------
\* Initial states of the hierarchy manager
\* ------------------------------------------------------------------------
NoOp == [op |-> "none", result |-> Result("none", <<>>)]

\* process.argv without --from and without --to
NoArgs == [from |-> <<>>, to |-> EMPTY]

\* main: isCliMove, for the --from and --to arguments
isCliMove(argv) == argv.from # <<>> \/ argv.to # EMPTY

\* main: the menu is shown, which is the case in the loop of a process
\* started without the arguments of a CLI move
MenuShown == running /\ ~isCliMove(cli)

Init ==
  /\ catList \in CategoryLayouts
  /\ docs \in DocLayouts
  /\ duplicates = {}
  /\ manifestFile = MissingFile
  /\ dryRun \in BOOLEAN
  /\ lastOp = NoOp
  /\ edits = 0
  /\ strays = {}
  /\ moves = 0
  /\ cli = NoArgs
  /\ running = TRUE
  /\ local = NoState
  /\ remote = NoState
  /\ changedPaths = NoChanges
  /\ plan = NoPlan
  /\ service = NoState
  /\ phase = "idle"
  /\ pending = <<>>
  /\ inflight = {}
  /\ settled = {}

\* ------------------------------------------------------------------------
\* Edits of the docs folder between two runs of the tool (each is followed
\* by loadCategories and loadDocsIndex)
\* ------------------------------------------------------------------------
Edited ==
  /\ edits < MaxEdits
  /\ edits' = edits + 1
  /\ lastOp' = NoOp
  /\ UNCHANGED <<catList, dryRun, local, remote, changedPaths, plan>>
  /\ UNCHANGED moveVars
  /\ UNCHANGED mainVars
  /\ UNCHANGED execVars

SetParent ==
  \E i \in 1..Len(docs), p \in ParentValues :
    /\ p # docs[i].parent
    /\ docs' = [docs EXCEPT ![i].parent = p]
    /\ Edited
    /\ UNCHANGED <<duplicates, manifestFile>>

SetCategory ==
  \E i \in 1..Len(docs), c \in CategoryValues :
    /\ c # docs[i].category
    /\ docs' = [docs EXCEPT ![i].category = c]
    /\ Edited
    /\ UNCHANGED <<duplicates, manifestFile>>

SetOrder ==
  \E i \in 1..Len(docs), o \in OrderValues :
    /\ o # docs[i].order
    /\ docs' = [docs EXCEPT ![i].order = o]
    /\ Edited
    /\ UNCHANGED <<duplicates, manifestFile>>

MoveFile ==
  \E i \in 1..Len(docs) :
    \E target \in MoveTargets(docs[i], docs, catList) :
      /\ target # docs[i].abs
      /\ docs' = [docs EXCEPT ![i].abs = target]
      /\ Edited
      /\ UNCHANGED <<duplicates, manifestFile>>

DeleteDoc ==
  \E i \in 1..Len(docs) :
    /\ docs' = SubSeq(docs, 1, i - 1) \o SubSeq(docs, i + 1, Len(docs))
    /\ duplicates' = duplicates \ {docs[i].slug}
    /\ Edited
    /\ UNCHANGED manifestFile

\* a second file with the slug of an indexed document appears
AddDuplicate ==
  \E i \in 1..Len(docs) :
    /\ docs[i].slug \notin duplicates
    /\ duplicates' = duplicates \cup {docs[i].slug}
    /\ Edited
    /\ UNCHANGED <<docs, manifestFile>>

DeleteManifest ==
  /\ manifestFile.kind # "missing"
  /\ manifestFile' = MissingFile
  /\ Edited
  /\ UNCHANGED <<docs, duplicates>>

CorruptManifest ==
  /\ manifestFile.kind = "json"
  /\ manifestFile' = CorruptFile
  /\ Edited
  /\ UNCHANGED <<docs, duplicates>>

\* ------------------------------------------------------------------------
\* The operations of the tool
\* ------------------------------------------------------------------------
\* menu action 'validate': validateStructure(categories, docsIndex)
Validate ==
  /\ MenuShown
  /\ lastOp' = [op |-> "validate",
                result |-> validateStructure(catList, docs, duplicates,
                                             manifestFile, FALSE)]
  /\ UNCHANGED <<catList, docs, duplicates, manifestFile, dryRun, edits>>
  /\ UNCHANGED moveVars
  /\ UNCHANGED mainVars
  /\ UNCHANGED syncVars
  /\ UNCHANGED execVars

\* menu action 'manifest': rebuildManifest(docsIndex, categories)
Rebuild ==
  LET r == rebuildManifest(docs, catList, duplicates, manifestFile, dryRun) IN
  /\ MenuShown
  /\ lastOp' = [op |-> "rebuild", result |-> r.result]
  /\ manifestFile' = r.file
  /\ UNCHANGED <<catList, docs, duplicates, dryRun, edits>>
  /\ UNCHANGED moveVars
  /\ UNCHANGED mainVars
  /\ UNCHANGED syncVars
  /\ UNCHANGED execVars

Next ==
  \/ SetParent
  \/ SetCategory
  \/ SetOrder
  \/ MoveFile
  \/ DeleteDoc
  \/ AddDuplicate
  \/ DeleteManifest
  \/ CorruptManifest
  \/ Validate
  \/ Rebuild

Spec == Init /\ [][Next]_vars

\* ------------------------------------------------------------------------
\* The sync script: main() up to the plan
\* ------------------------------------------------------------------------
SyncInit ==
  /\ local \in [categories : LocalCategorySeqs, docs : LocalDocSeqs]
  /\ remote \in [categories : RemoteCategorySeqs, docs : RemoteDocSeqs]
  /\ changedPaths \in ChangeSets
  /\ plan = NoPlan
  /\ catList = <<>>
  /\ docs = <<>>
  /\ duplicates = {}
  /\ manifestFile = MissingFile
  /\ dryRun = FALSE
  /\ lastOp = NoOp
  /\ edits = 0
  /\ strays = {}
  /\ moves = 0
  /\ cli = NoArgs
  /\ running = FALSE
  /\ service = NoState
  /\ phase = "idle"
  /\ pending = <<>>
  /\ inflight = {}
  /\ settled = {}

CreateSyncPlan ==
  /\ ~plan.made
  /\ plan' = createSyncPlan(local, remote, changedPaths)
  /\ UNCHANGED <<local, remote, changedPaths>>
  /\ UNCHANGED hierVars
  /\ UNCHANGED execVars

SyncNext == CreateSyncPlan

SyncSpec == SyncInit /\ [][SyncNext]_vars

\* ------------------------------------------------------------------------
\* The move specification: menu action 'moveDocs' of main, with the
\* validate and manifest actions
\* ------------------------------------------------------------------------
MoveInit ==
  /\ catList = PlainCategories
  /\ docs \in MoveLayouts
  /\ duplicates = {}
  /\ manifestFile \in {MissingFile, JsonFile(buildManifest(docs, catList))}
  /\ dryRun \in BOOLEAN
  /\ strays \in StrayLayouts
  /\ moves = 0
  /\ cli = NoArgs
  /\ running = TRUE
  /\ lastOp = NoOp
  /\ edits = 0
  /\ local = NoState
  /\ remote = NoState
  /\ changedPaths = NoChanges
  /\ plan = NoPlan
  /\ service = NoState
  /\ phase = "idle"
  /\ pending = <<>>
  /\ inflight = {}
  /\ settled = {}

\* what the action leaves in lastOp
MoveOp(stage, result, flow, sourceSlugs, destination) ==
  [op |-> "moveDocs", stage |-> stage, result |-> result,
   sourceSlugs |-> sourceSlugs, destination |-> destination,
   flow |-> [outcome |-> flow.outcome, errors |-> flow.errors,
             fileOps |-> flow.fileOps, promotions |-> flow.promotions,
             steps |-> flow.steps, index |-> flow.index]]

NoFlow == MoveResult("none", <<>>, <<>>, <<>>, <<>>, <<>>, <<>>)

\* main, action 'moveDocs': validateStructure, bulkMoveFlow, then the
\* post-operation sync (reload of the indices, validateStructure,
\* rebuildManifest); an error thrown anywhere ends the action
MoveDocs ==
  /\ running
  /\ moves < MaxMoves
  /\ moves' = moves + 1
  /\ UNCHANGED <<catList, duplicates, dryRun, edits, strays>>
  /\ UNCHANGED mainVars
  /\ UNCHANGED syncVars
  /\ UNCHANGED execVars
  /\ \E before \in {validateStructure(catList, docs, duplicates,
                                      manifestFile, FALSE)} :
       IF before.outcome # "ok"
         THEN /\ lastOp' = MoveOp("validate", before, NoFlow, <<>>, EMPTY)
              /\ UNCHANGED <<docs, manifestFile>>
       ELSE
         \E sourceSlugs \in SourcesAsked(cli),
            destination \in DestinationsAsked(cli),
            child \in ChildAnswers, confirm \in BOOLEAN :
           \E flow \in {bulkMoveFlow(catList, docs, strays,
                                     [sourceSlugs |-> sourceSlugs,
                                      destination |-> destination,
                                      childMode |-> child.childMode,
                                      perDocChoice |-> child.perDocChoice,
                                      confirm |-> confirm],
                                     dryRun)} :
             /\ docs' = flow.files
             /\ IF flow.outcome = "raised"
                  THEN /\ lastOp' = MoveOp("move",
                                           Result("raised", flow.errors),
                                           flow, sourceSlugs, destination)
                       /\ UNCHANGED manifestFile
                ELSE
                  \E final \in {validateStructure(catList, flow.files,
                                                  duplicates, manifestFile,
                                                  FALSE)} :
                    IF final.outcome # "ok"
                      THEN /\ lastOp' = MoveOp("final validation", final,
                                               flow, sourceSlugs, destination)
                           /\ UNCHANGED manifestFile
                    ELSE
                      \E rebuilt \in {rebuildManifest(flow.files, catList,
                                                      duplicates,
                                                      manifestFile, dryRun)} :
                        /\ lastOp' = MoveOp("done", rebuilt.result, flow,
                                            sourceSlugs, destination)
                        /\ manifestFile' = rebuilt.file

MoveNext ==
  \/ MoveDocs
  \/ Validate
  \/ Rebuild

MoveSpec == MoveInit /\ [][MoveNext]_vars

\* ------------------------------------------------------------------------
\* Category flows (category-manager.mjs)
\* ------------------------------------------------------------------------
\* slugify(s) on the titles of the model, which are single letters: lower
\* case, nothing to strip
slugify(s) == toLowerCase(s)

\* safeApiCall: the request goes out unless DRY_RUN, which returns a mock
safeApiCallSends(dry) == ~dry

\* the answers to 'Category title:' and to 'New title:'
CategoryTitles == {EMPTY, "G", "K"}
NewTitles == {EMPTY, "Guides", "Guides 2"}

CategoryResult(outcome, errors, cats, svc) ==
  [outcome |-> outcome, errors |-> errors, cats |-> cats, service |-> svc]

\* createCategoryFlow(categories) for the title typed and the answer of the
\* service: what loadCategories finds afterwards and the categories of the
\* service.  res.data.slug, the slug the service gives the category, is
\* the slug derived from the title
createCategoryFlow(cats, title, dry, apiOk, svc) ==
  LET expectedSlug == slugify(title)
      finalSlug == slugify(title)
      Thrown(kind) ==
        CategoryResult("raised", <<Err(kind, expectedSlug, title)>>, cats, svc)
  IN IF title = EMPTY THEN Thrown("TitleRequired")
     ELSE IF bySlugHas(cats, toLowerCase(expectedSlug))
       THEN Thrown("CategoryExists")
     ELSE IF safeApiCallSends(dry) /\ ~apiOk THEN Thrown("ApiError")
     ELSE IF dry THEN CategoryResult("ok", <<>>, cats, svc)
     ELSE CategoryResult("ok", <<>>,
            Append(cats, Category(finalSlug, title, <<finalSlug>>)),
            [svc EXCEPT !.categories =
               Append(@, [slug |-> finalSlug, id |-> finalSlug,
                          title |-> title, type |-> "guide"])])

\* fs.writeFile(ymlAbs, ...) of editCategoryFlow: the marker file with the
\* title rewritten
writeTitle(cats, folder, newTitle) ==
  [i \in 1..Len(cats) |->
     IF cats[i].folder = folder THEN [cats[i] EXCEPT !.title = newTitle]
     ELSE cats[i]]

\* the update of the marker file without the DRY_RUN branch
updateTitle_inDryRun(cats, folder, newTitle, dry) ==
  writeTitle(cats, folder, newTitle)

\* editCategoryFlow: if (DRY_RUN) log only, else rewrite the marker file
updateTitle(cats, folder, newTitle, dry) ==
  IF dry THEN cats ELSE writeTitle(cats, folder, newTitle)

\* editCategoryFlow(categories) for the category picked and the title typed
editCategoryFlow(cats, slug, newTitle, dry) ==
  IF ~bySlugHas(cats, toLowerCase(slug))
    THEN [outcome |-> "raised", cats |-> cats,
          errors |-> <<Err("CategoryNotFound", slug, slug)>>]
  ELSE
    LET cat == bySlugGet(cats, toLowerCase(slug)) IN
    IF newTitle = EMPTY \/ newTitle = cat.title
      THEN [outcome |-> "ok", cats |-> cats, errors |-> <<>>]
    ELSE [outcome |-> "ok", errors |-> <<>>,
          cats |-> updateTitle(cats, cat.folder, newTitle, dry)]

\* main, the post-operation sync: validateStructure on the reloaded indices
\* and, when it passes, rebuildManifest
postOperationSync(cats, ds, dups, file, dry) ==
  LET final == validateStructure(cats, ds, dups, file, FALSE)
      rebuilt == rebuildManifest(ds, cats, dups, file, dry)
  IN IF final.outcome # "ok"
       THEN [stage |-> "final validation", result |-> final, file |-> file]
     ELSE [stage |-> "done", result |-> rebuilt.result, file |-> rebuilt.file]

\* ------------------------------------------------------------------------
\* The main loop of the hierarchy manager with all its menu actions, and
\* started with --from and --to
\* ------------------------------------------------------------------------
CliArgs ==
  {NoArgs, [from |-> <<"d">>, to |-> "a"], [from |-> <<"zz">>, to |-> "g"]}

MainInit ==
  /\ catList = PlainCategories
  /\ docs = PairDocs
  /\ duplicates = {}
  /\ manifestFile = JsonFile(buildManifest(PairDocs, PlainCategories))
  /\ dryRun \in BOOLEAN
  /\ strays = {}
  /\ moves = 0
  /\ cli \in CliArgs
  /\ running = TRUE
  /\ lastOp = NoOp
  /\ edits = 0
  /\ local = NoState
  /\ remote = NoState
  /\ changedPaths = NoChanges
  /\ plan = NoPlan
  /\ service = NoState
  /\ phase = "idle"
  /\ pending = <<>>
  /\ inflight = {}
  /\ settled = {}

CategoryOp(op, stage, result) == [op |-> op, stage |-> stage, result |-> result]

\* main, action 'createCategory' with its post-operation sync
CreateCategory ==
  /\ MenuShown
  /\ edits < MaxEdits
  /\ edits' = edits + 1
  /\ UNCHANGED <<docs, duplicates, dryRun>>
  /\ UNCHANGED moveVars
  /\ UNCHANGED mainVars
  /\ UNCHANGED syncVars
  /\ UNCHANGED <<phase, pending, inflight, settled>>
  /\ \E title \in CategoryTitles, apiOk \in BOOLEAN :
       \E flow \in {createCategoryFlow(catList, title, dryRun, apiOk,
                                       service)} :
         /\ catList' = flow.cats
         /\ service' = flow.service
         /\ IF flow.outcome = "raised"
              THEN /\ lastOp' = CategoryOp("createCategory", "flow",
                                           Result("raised", flow.errors))
                   /\ UNCHANGED manifestFile
            ELSE
              \E after \in {postOperationSync(flow.cats, docs, duplicates,
                                              manifestFile, dryRun)} :
                /\ lastOp' = CategoryOp("createCategory", after.stage,
                                        after.result)
                /\ manifestFile' = after.file

\* main, action 'editCategory' with its post-operation sync
EditCategory ==
  /\ MenuShown
  /\ edits < MaxEdits
  /\ edits' = edits + 1
  /\ UNCHANGED <<docs, duplicates, dryRun>>
  /\ UNCHANGED moveVars
  /\ UNCHANGED mainVars
  /\ UNCHANGED syncVars
  /\ UNCHANGED execVars
  /\ \E i \in 1..Len(catList), newTitle \in NewTitles :
       \E flow \in {editCategoryFlow(catList, catList[i].slug, newTitle,
                                     dryRun)} :
         /\ catList' = flow.cats
         /\ IF flow.outcome = "raised"
              THEN /\ lastOp' = CategoryOp("editCategory", "flow",
                                           Result("raised", flow.errors))
                   /\ UNCHANGED manifestFile
            ELSE
              \E after \in {postOperationSync(flow.cats, docs, duplicates,
                                              manifestFile, dryRun)} :
                /\ lastOp' = CategoryOp("editCategory", after.stage,
                                        after.result)
                /\ manifestFile' = after.file

\* main, action 'exit': the loop is left
Exit ==
  /\ MenuShown
  /\ running' = FALSE
  /\ lastOp' = CategoryOp("exit", "done", Result("ok", <<>>))
  /\ UNCHANGED <<catList, docs, duplicates, manifestFile, dryRun, edits, cli>>
  /\ UNCHANGED moveVars
  /\ UNCHANGED syncVars
  /\ UNCHANGED execVars

MainNext ==
  \/ MoveDocs
  \/ Validate
  \/ Rebuild
  \/ CreateCategory
  \/ EditCategory
  \/ Exit

MainSpec == MainInit /\ [][MainNext]_vars

\* ------------------------------------------------------------------------
\* The sync script: fetchRemoteState and executeSyncPlan, call by call
\* (state-manager.js, sync-executor.js, api-client.js, main.js)
\* ------------------------------------------------------------------------
MAX_CONCURRENT_API_CALLS == 5

\* throttledApiCall: isWriteOperation
isWriteOperation(method) == method \in {"post", "put", "delete"}

\* throttledApiCall: the request goes out unless DRY_RUN on a write
throttledApiCallSends(method, dry) == ~(dry /\ isWriteOperation(method))

\* fetchRemoteState: remoteCategoryList
remoteCategoryList(svc) ==
  SelectSeq(svc.categories, LAMBDA c : c.type = "guide")

\* fetchRemoteState: remoteCategories after the forEach
remoteCategories(svc) ==
  LET list == remoteCategoryList(svc) IN
  [i \in 1..Len(list) |->
     [slug |-> toLowerCase(list[i].slug), id |-> list[i].id,
      title |-> list[i].title, type |-> list[i].type]]

\* the children array of a node of the tree the service returns for a
\* category: the documents of the category under that parent
childrenAt(svc, categorySlug, parentSlug) ==
  SelectSeq(svc.docs, LAMBDA d : /\ d.categorySlug = categorySlug
                                 /\ d.parentDocSlug = parentSlug)

\* flattenRemoteDocs(nestedDocs, categorySlug, parentSlug, remoteDocs); at
\* is the slug of the category at the service, whose tree is walked
RECURSIVE flattenRemoteDocs(_, _, _, _, _, _, _)
flattenRemoteDocs(svc, at, nestedDocs, categorySlug, parentSlug, remoteDocs, fuel) ==
  IF nestedDocs = <<>> \/ fuel = 0 THEN remoteDocs
  ELSE
    LET doc == Head(nestedDocs)
        own == mapSet(remoteDocs,
                      [slug |-> toLowerCase(doc.slug), title |-> doc.title,
                       categorySlug |-> categorySlug,
                       parentDocSlug |-> parentSlug, order |-> doc.order,
                       hidden |-> doc.hidden])
        below == flattenRemoteDocs(svc, at, childrenAt(svc, at, doc.slug),
                                   categorySlug, doc.slug, own, fuel - 1)
    IN flattenRemoteDocs(svc, at, Tail(nestedDocs), categorySlug, parentSlug,
                         below, fuel)

\* the mapper of fetchRemoteState for one category whose read succeeded
readCategoryDocs(svc, slug, remoteDocs) ==
  flattenRemoteDocs(svc, slug, childrenAt(svc, slug, NULL), toLowerCase(slug),
                    NULL, remoteDocs, Len(svc.docs))

\* fetchRemoteState when the reads of the categories in failed throw:
\* the categories in the order of the list, one read after the other
RECURSIVE fetchLoop(_, _, _, _)
fetchLoop(svc, list, failed, remoteDocs) ==
  IF list = <<>> THEN remoteDocs
  ELSE fetchLoop(svc, Tail(list), failed,
                 IF Head(list).slug \in failed THEN remoteDocs
                 ELSE readCategoryDocs(svc, Head(list).slug, remoteDocs))

fetchRemoteState(svc, failed) ==
  [categories |-> remoteCategories(svc),
   docs |-> fetchLoop(svc, remoteCategoryList(svc), failed, <<>>)]

\* the mapper of fetchRemoteState without its try and catch
fetchPhaseAfter_uncaught(result) ==
  IF result = "error" THEN "failed" ELSE "fetch"

\* the mapper of fetchRemoteState: a read that throws is caught and warned
\* about, the mapper resolves
fetchPhaseAfter(result) == "fetch"

\* the phases 5A to 5D with the documents written first
BucketOrder_docsFirst ==
  <<"docCreations", "docUpdates", "categoryCreations", "categoryUpdates",
    "categoryDeletions", "docDeletions">>

\* executeSyncPlan: the buckets in the order of its phases 5A to 5D
BucketOrder ==
  <<"categoryCreations", "categoryUpdates", "docDeletions",
    "categoryDeletions", "docCreations", "docUpdates">>

Buckets == {BucketOrder[k] : k \in 1..Len(BucketOrder)}

\* the method executeSyncPlan passes to throttledApiCall for a bucket
methodOf(bucket) ==
  CASE bucket \in {"categoryCreations", "docCreations"} -> "post"
    [] bucket \in {"categoryUpdates", "docUpdates"} -> "put"
    [] bucket \in {"categoryDeletions", "docDeletions"} -> "delete"
    [] OTHER -> "get"

\* a remote call: the bucket it belongs to ("fetch" for a read of the
\* documents of a category) and the slug it is about
Call(bucket, slug) == [bucket |-> bucket, slug |-> slug]

\* the items handed to pMap for a bucket
callsOf(p, bucket) ==
  [i \in 1..Len(p[bucket]) |-> Call(bucket, p[bucket][i].slug)]

\* pMap without the concurrency option: every mapper is started at once
firstBatch_uncapped(items) == Len(items)

\* pMap(items, mapper, { concurrency }): the number of mappers it starts
\* before it waits
firstBatch(items) ==
  IF Len(items) < MAX_CONCURRENT_API_CALLS THEN Len(items)
  ELSE MAX_CONCURRENT_API_CALLS

\* the first bucket from position k on with an operation in it
RECURSIVE nextBucket(_, _)
nextBucket(p, k) ==
  IF k > Len(BucketOrder) THEN k
  ELSE IF p[BucketOrder[k]] # <<>> THEN k
  ELSE nextBucket(p, k + 1)

positionOf(bucket) == CHOOSE k \in 1..Len(BucketOrder) : BucketOrder[k] = bucket

\* executeSyncPlan from position k on: the phase it is in and the pMap it
\* is waiting for
executeFrom(p, k) ==
  LET n == nextBucket(p, k) IN
  IF n > Len(BucketOrder)
    THEN [phase |-> "done", inflight |-> {}, pending |-> <<>>]
  ELSE
    LET items == callsOf(p, BucketOrder[n]) IN
    [phase |-> BucketOrder[n],
     inflight |-> {items[i] : i \in 1..firstBatch(items)},
     pending |-> SubSeq(items, firstBatch(items) + 1, Len(items))]

\* main after fetchRemoteState: the plan, then the return of a dry run or
\* executeSyncPlan
afterFetch(loc, rem, changed, dry) ==
  LET p == createSyncPlan(loc, rem, changed) IN
  IF dry THEN [plan |-> p, phase |-> "done", inflight |-> {}, pending |-> <<>>]
  ELSE [plan |-> p] @@ executeFrom(p, 1)

\* processAndPushDoc: the payload, parentDocSlug: doc.parentDocSlug ||
\* undefined
payloadOf(doc) ==
  [slug |-> doc.slug, title |-> doc.title, categorySlug |-> doc.categorySlug,
   parentDocSlug |-> orNull(doc.parentDocSlug), order |-> doc.order,
   hidden |-> doc.hidden]

remove(m, slug) == SelectSeq(m, LAMBDA e : e.slug # slug)

\* the service after a write of the plan that it answers with success.  A
\* created category gets the slug the service derives from its title: the
\* request carries the title and the type
applyWrite(svc, p, call) ==
  LET op == mapGet(p[call.bucket], call.slug) IN
  CASE call.bucket = "categoryCreations" ->
         [svc EXCEPT !.categories =
            mapSet(@, [slug |-> slugify(op.title), id |-> slugify(op.title),
                       title |-> op.title, type |-> op.type])]
    [] call.bucket = "categoryUpdates" ->
         [svc EXCEPT !.categories =
            [i \in 1..Len(svc.categories) |->
               IF svc.categories[i].slug = op.slug
                 THEN [svc.categories[i] EXCEPT !.title = op.title,
                                                !.type = op.type]
                 ELSE svc.categories[i]]]
    [] call.bucket = "docDeletions" ->
         [svc EXCEPT !.docs = remove(@, op.slug)]
    [] call.bucket = "categoryDeletions" ->
         [svc EXCEPT !.categories = remove(@, op.slug)]
    [] OTHER ->
         [svc EXCEPT !.docs = mapSet(@, payloadOf(op.doc))]

\* the calls that failed so far
Failed == {s \in settled : s.result = "error"}

Settled(call, result) ==
  [bucket |-> call.bucket, slug |-> call.slug, result |-> result]

\* the answers the service can give to a call in flight: 404 to the DELETE
\* of something it does not have, success or an error otherwise
mayAnswer(svc, call) ==
  IF methodOf(call.bucket) = "delete"
     /\ ~mapHas(IF call.bucket = "docDeletions" THEN svc.docs
                ELSE svc.categories, call.slug)
    THEN {"notFound"}
    ELSE {"ok", "error"}

\* ------------------------------------------------------------------------
\* The local and remote states a run of the sync script starts from
\* ------------------------------------------------------------------------
SyncDoc(slug, categorySlug, parentDocSlug) ==
  [slug |-> slug, title |-> "T", categorySlug |-> categorySlug,
   parentDocSlug |-> parentDocSlug, order |-> 1, hidden |-> FALSE,
   absPath |-> slug]

ServiceDoc(slug, categorySlug, parentDocSlug) ==
  payloadOf(SyncDoc(slug, categorySlug, parentDocSlug))

ServiceCategory(slug, title) ==
  [slug |-> slug, id |-> slug, title |-> title, type |-> "guide"]

\* nothing on the service yet: two categories, a document and its child
FirstSync ==
  [local |-> [categories |-> <<LocalCategory("g", "G", "guide"),
                               LocalCategory("k", "K", "guide")>>,
              docs |-> <<SyncDoc("a", "g", NULL), SyncDoc("b", "g", "a")>>],
   service |-> NoState]

\* a category and its documents were removed locally; the service also has
\* a category of the API reference
Cleanup ==
  [local |-> [categories |-> <<LocalCategory("g", "G", "guide")>>,
              docs |-> <<SyncDoc("a", "g", NULL)>>],
   service |-> [categories |->
                  <<ServiceCategory("g", "G"), ServiceCategory("h", "H"),
                    [ServiceCategory("r", "R") EXCEPT !.type = "reference"]>>,
                docs |-> <<ServiceDoc("a", "g", NULL),
                           ServiceDoc("x", "h", NULL),
                           ServiceDoc("y", "h", "x")>>]]

\* six new documents in a category the service has
ManyDocs ==
  [local |-> [categories |-> <<LocalCategory("g", "G", "guide")>>,
              docs |-> [i \in 1..(MAX_CONCURRENT_API_CALLS + 1) |->
                          SyncDoc(<<"a", "b", "c", "d", "e", "f">>[i],
                                  "g", NULL)]],
   service |-> [categories |-> <<ServiceCategory("g", "G")>>,
                docs |-> <<>>]]

\* six categories on both sides, one document
ManyCategories ==
  [local |-> [categories |->
                [i \in 1..(MAX_CONCURRENT_API_CALLS + 1) |->
                   LocalCategory(<<"g", "h", "k", "m", "n", "p">>[i],
                                 "C", "guide")],
              docs |-> <<SyncDoc("a", "g", NULL), SyncDoc("b", "h", NULL)>>],
   service |-> [categories |->
                  [i \in 1..(MAX_CONCURRENT_API_CALLS + 1) |->
                     ServiceCategory(<<"g", "h", "k", "m", "n", "p">>[i],
                                     "C")],
                docs |-> <<ServiceDoc("a", "g", NULL),
                           ServiceDoc("b", "h", NULL)>>]]

\* a category whose marker file says type: link, with a document
LinkCategory ==
  [local |-> [categories |-> <<LocalCategory("g", "G", "guide"),
                               LocalCategory("h", "H", "link")>>,
              docs |-> <<SyncDoc("a", "h", NULL)>>],
   service |-> [categories |-> <<ServiceCategory("g", "G"),
                                 ServiceCategory("h", "H")>>,
                docs |-> <<ServiceDoc("a", "h", NULL)>>]]

Scenarios == {FirstSync, Cleanup, ManyDocs, ManyCategories, LinkCategory}

\* gitChanges.changed: null, or a set without a path of the docs folder
FullSync == [known |-> FALSE, paths |-> {}]
ExecChangeSets == {FullSync, NoChanges}

ExecInit ==
  /\ \E sc \in Scenarios : local = sc.local /\ service = sc.service
  /\ changedPaths \in ExecChangeSets
  /\ dryRun \in BOOLEAN
  /\ remote = NoState
  /\ plan = NoPlan
  /\ phase = "start"
  /\ pending = <<>>
  /\ inflight = {}
  /\ settled = {}
  /\ catList = <<>>
  /\ docs = <<>>
  /\ duplicates = {}
  /\ manifestFile = MissingFile
  /\ lastOp = NoOp
  /\ edits = 0
  /\ strays = {}
  /\ moves = 0
  /\ cli = NoArgs
  /\ running = FALSE

\* main of the sync script up to the pMap of fetchRemoteState: the list of
\* categories is read, and the first reads of their documents are started
SyncStart ==
  /\ phase = "start"
  /\ UNCHANGED hierVars
  /\ UNCHANGED <<local, changedPaths, service>>
  /\ \E ok \in BOOLEAN :
       IF ~ok
         THEN /\ Cardinality(Failed) < MaxFailures
              /\ phase' = "failed"
              /\ settled' = {Settled(Call("categories", EMPTY), "error")}
              /\ UNCHANGED <<remote, plan, pending, inflight>>
       ELSE
         LET rem == [categories |-> remoteCategories(service), docs |-> <<>>]
             list == remoteCategoryList(service)
             items == [i \in 1..Len(list) |-> Call("fetch", list[i].slug)]
         IN /\ remote' = rem
            /\ settled' = settled
            /\ IF items = <<>>
                 THEN \E after \in {afterFetch(local, rem, changedPaths,
                                               dryRun)} :
                        /\ plan' = after.plan
                        /\ phase' = after.phase
                        /\ inflight' = after.inflight
                        /\ pending' = after.pending
               ELSE /\ phase' = "fetch"
                    /\ inflight' = {items[i] : i \in 1..firstBatch(items)}
                    /\ pending' = SubSeq(items, firstBatch(items) + 1,
                                         Len(items))
                    /\ plan' = plan

\* fetchRemoteState: the read of the documents of a category is answered;
\* pMap starts the next read, or fetchRemoteState returns and main goes on
\* to the plan and to executeSyncPlan
FetchResponds ==
  /\ phase = "fetch"
  /\ UNCHANGED hierVars
  /\ UNCHANGED <<local, changedPaths, service>>
  /\ \E call \in inflight, result \in {"ok", "error"} :
       /\ throttledApiCallSends(methodOf(call.bucket), dryRun)
       /\ result = "error" => Cardinality(Failed) < MaxFailures
       /\ settled' = settled \cup {Settled(call, result)}
       /\ \E rem \in {IF result = "ok"
                        THEN [remote EXCEPT !.docs =
                                readCategoryDocs(service, call.slug, @)]
                        ELSE remote} :
            /\ remote' = rem
            /\ IF fetchPhaseAfter(result) = "failed"
                 THEN /\ phase' = "failed"
                      /\ inflight' = inflight \ {call}
                      /\ UNCHANGED <<plan, pending>>
               ELSE IF pending # <<>>
                 THEN /\ inflight' = (inflight \ {call}) \cup {Head(pending)}
                      /\ pending' = Tail(pending)
                      /\ UNCHANGED <<plan, phase>>
               ELSE IF inflight \ {call} # {}
                 THEN /\ inflight' = inflight \ {call}
                      /\ UNCHANGED <<plan, phase, pending>>
               ELSE \E after \in {afterFetch(local, rem, changedPaths,
                                             dryRun)} :
                      /\ plan' = after.plan
                      /\ phase' = after.phase
                      /\ inflight' = after.inflight
                      /\ pending' = after.pending

\* executeSyncPlan: a write of the running bucket is answered; pMap starts
\* the next operation of the bucket, or the bucket is done and the next one
\* starts; an error ends the run (main: catch, process.exit(1))
WriteResponds ==
  /\ phase \in Buckets
  /\ UNCHANGED hierVars
  /\ UNCHANGED <<local, changedPaths, remote, plan>>
  /\ \E call \in inflight :
       \E result \in mayAnswer(service, call) :
         /\ throttledApiCallSends(methodOf(call.bucket), dryRun)
         /\ result = "error" => Cardinality(Failed) < MaxFailures
         /\ settled' = settled \cup {Settled(call, result)}
         /\ IF result = "error"
              THEN /\ phase' = "failed"
                   /\ inflight' = inflight \ {call}
                   /\ UNCHANGED <<service, pending>>
            ELSE
              /\ service' = IF result = "ok"
                              THEN applyWrite(service, plan, call)
                              ELSE service
              /\ IF pending # <<>>
                   THEN /\ inflight' = (inflight \ {call}) \cup {Head(pending)}
                        /\ pending' = Tail(pending)
                        /\ phase' = phase
                 ELSE IF inflight \ {call} # {}
                   THEN /\ inflight' = inflight \ {call}
                        /\ UNCHANGED <<phase, pending>>
                 ELSE \E next \in {executeFrom(plan, positionOf(phase) + 1)} :
                        /\ phase' = next.phase
                        /\ inflight' = next.inflight
                        /\ pending' = next.pending

\* after the run has ended with an error: a write that was in flight is
\* carried out by the service
ServiceFinishes ==
  /\ phase = "failed"
  /\ UNCHANGED hierVars
  /\ UNCHANGED <<local, changedPaths, remote, plan, phase, pending, settled>>
  /\ \E call \in inflight :
       /\ call.bucket \in Buckets
       /\ inflight' = inflight \ {call}
       /\ service' = applyWrite(service, plan, call)

ExecNext ==
  \/ SyncStart
  \/ FetchResponds
  \/ WriteResponds
  \/ ServiceFinishes

ExecSpec == ExecInit /\ [][ExecNext]_vars

\* ------------------------------------------------------------------------
\* The two tools together: a process of the hierarchy manager or a run of
\* the sync script
\* ------------------------------------------------------------------------
ToolInit == MainInit \/ ExecInit

ToolNext == MainNext \/ ExecNext

ToolSpec == ToolInit /\ [][ToolNext]_vars

\* ========================================================================
\* Properties
\* ========================================================================
\* The invariants of the hierarchy graph, stated on the index itself
DocSet == SeqToSet(docs)

HasParent(d) == d.parent # NULL /\ d.parent # EMPTY

IsDocSlug(slug) == \E d \in DocSet : d.slug = slug

TheDoc(slug) == CHOOSE d \in DocSet : d.slug = slug

\* the slugs met by following the parent pointers from `slug` upwards, in
\* root-to-leaf order, at most `fuel` of them
RECURSIVE Upwards(_, _)
Upwards(slug, fuel) ==
  IF fuel = 0 \/ slug = NULL \/ slug = EMPTY THEN <<>>
  ELSE IF ~IsDocSlug(slug) THEN <<slug>>
  ELSE Append(Upwards(TheDoc(slug).parent, fuel - 1), slug)

AncestorSlugs(d) == Upwards(d.parent, Len(docs) + 1)

\* following the parent pointers of d never ends
LeadsToCycle(d) == Len(AncestorSlugs(d)) = Len(docs) + 1

HasCycle == \E d \in DocSet : LeadsToCycle(d)

ParentMissing(d) == HasParent(d) /\ ~IsDocSlug(d.parent)

ParentInOtherCategory(d) ==
  HasParent(d) /\ IsDocSlug(d.parent) /\ TheDoc(d.parent).category # d.category

TooDeep(d) == Len(AncestorSlugs(d)) + 1 > MAX_DOC_DEPTH

CategoryExists(d) ==
  \E i \in 1..Len(catList) :
    toLowerCase(catList[i].slug) = toLowerCase(d.category)

\* the folder of the category of d: the first marker with that slug
CategoryFolder(d) ==
  catList[CHOOSE i \in 1..Len(catList) :
            /\ toLowerCase(catList[i].slug) = toLowerCase(d.category)
            /\ \A j \in 1..(i - 1) :
                 toLowerCase(catList[j].slug) # toLowerCase(d.category)].folder

\* {category.folder}/{ancestor-slug}/.../{slug}.md
ExpectedLocation(d) ==
  [dir |-> CategoryFolder(d) \o AncestorSlugs(d), file |-> d.slug]

SameIgnoringCase(p, q) ==
  /\ Len(p.dir) = Len(q.dir)
  /\ \A i \in 1..Len(p.dir) : toLowerCase(p.dir[i]) = toLowerCase(q.dir[i])
  /\ toLowerCase(p.file) = toLowerCase(q.file)

Misplaced(d) ==
  CategoryExists(d) /\ ~LeadsToCycle(d)
    /\ ~SameIgnoringCase(d.abs, ExpectedLocation(d))

StructurallyBroken ==
  \/ duplicates # {}
  \/ \E d \in DocSet :
       \/ ParentMissing(d)
       \/ ParentInOtherCategory(d)
       \/ TooDeep(d)
       \/ LeadsToCycle(d)
       \/ ~CategoryExists(d)
       \/ Misplaced(d)

Outcome == lastOp.result.outcome
Errors == lastOp.result.errors
Listed(kind, slug) ==
  \E i \in 1..Len(Errors) : Errors[i].kind = kind /\ Errors[i].slug = slug

\* C1: when validateStructure succeeds, following the parent pointers from
\* any document reaches a document without parent after visiting at most
\* MAX_DOC_DEPTH documents, all of them distinct.
ChainEnds(d) ==
  \E n \in 1..MAX_DOC_DEPTH :
    \E walk \in [1..n -> DocSet] :
      /\ walk[1] = d
      /\ \A i \in 1..(n - 1) : HasParent(walk[i]) /\ walk[i + 1].slug = walk[i].parent
      /\ ~HasParent(walk[n])
      /\ \A i, j \in 1..n : i # j => walk[i].slug # walk[j].slug

C1_ParentChainsEnd ==
  Outcome = "ok" => \A d \in DocSet : ChainEnds(d)

C1_Witness ==
  /\ lastOp.op = "validate"
  /\ Outcome = "ok"
  /\ \E d \in DocSet : Len(AncestorSlugs(d)) = MAX_DOC_DEPTH - 1

\* C2: validateStructure terminates on an index whose parent pointers form
\* a cycle, and ends by raising the aggregated error that lists the cycle.
C2_CycleIsReported ==
  (lastOp.op \in {"validate", "rebuild"} /\ HasCycle)
    => /\ Outcome = "raised"
       /\ \E d \in DocSet : Listed("CircularDependency", d.slug)

\* C3: validateStructure raises exactly when an invariant is broken, and
\* then the numbered list of its single error has an entry for every
\* violation of every document (stated here for the indices without cycle).
C3_EveryViolationListed ==
  (lastOp.op = "validate" /\ ~HasCycle)
    => /\ Outcome = "ok" <=>
            ~(StructurallyBroken
                \/ validateManifestConsistency(docs, catList, manifestFile) # <<>>)
       /\ \A d \in DocSet :
            /\ ParentMissing(d) => Listed("MissingParent", d.slug)
            /\ ParentInOtherCategory(d) => Listed("ParentCategoryMismatch", d.slug)
            /\ TooDeep(d) => Listed("MaxDepthExceeded", d.slug)
            /\ ~CategoryExists(d) => Listed("MissingCategory", d.slug)
            /\ Misplaced(d) => Listed("PhysicalMismatch", d.slug)

\* C4: when validateStructure succeeds every document is stored, up to
\* letter case, at {category folder}/{ancestors, root first}/{slug}.md, and
\* when it raises, the documents of an existing category that are listed as
\* physical mismatches are exactly those stored elsewhere.
C4_PathsFollowHierarchy ==
  /\ Outcome = "ok" =>
       \A d \in DocSet :
         CategoryExists(d) => SameIgnoringCase(d.abs, ExpectedLocation(d))
  /\ Outcome = "raised" =>
       \A d \in DocSet :
         CategoryExists(d) =>
           (Listed("PhysicalMismatch", d.slug)
              <=> ~SameIgnoringCase(d.abs, ExpectedLocation(d)))

C4_Witness ==
  /\ Outcome = "ok"
  /\ \E d \in DocSet :
       /\ Len(AncestorSlugs(d)) = 2
       /\ d.abs # ExpectedLocation(d)

\* C5: with the manifest check enabled validateStructure succeeds only if
\* the manifest exists and parses, names the same categories as the disk
\* (a category being identified by its lower-cased slug) and holds exactly
\* the documents of the index, each with the same category and parent; a
\* missing or unparsable manifest is listed as an error.
RECURSIVE NodeTriples(_, _)
NodeTriples(nodes, categorySlug) ==
  UNION {{[slug |-> n.slug, category |-> categorySlug, parent |-> n.parent]}
           \cup NodeTriples(n.children, categorySlug) : n \in SeqToSet(nodes)}

ManifestDocs ==
  UNION {NodeTriples(c.docs, c.slug) : c \in SeqToSet(manifestFile.categories)}

IndexDocs ==
  {[slug |-> d.slug, category |-> d.category, parent |-> d.parent] : d \in DocSet}

ManifestCategories == {toLowerCase(c.slug) : c \in SeqToSet(manifestFile.categories)}
DiskCategories == {toLowerCase(c.slug) : c \in SeqToSet(catList)}

C6_RoundTrip ==
  (lastOp.op = "rebuild" /\ Outcome = "ok" /\ ~dryRun)
    => validateManifestConsistency(docs, catList, manifestFile) = <<>>

\* C7: rebuildManifest validates the structure first, with the manifest
\* check disabled: a rebuild of a structurally broken index does not
\* succeed and leaves the manifest file as it was, and a rebuild of a sound
\* index succeeds whatever the manifest file holds.
C7_RebuildStep ==
  lastOp'.op = "rebuild" =>
    /\ StructurallyBroken =>
         (manifestFile' = manifestFile /\ lastOp'.result.outcome # "ok")
    /\ ~StructurallyBroken => lastOp'.result.outcome = "ok"

C7_NoRebuildOfBrokenIndex == [][C7_RebuildStep]_vars

C7_Witness ==
  /\ lastOp.op = "rebuild"
  /\ Outcome = "raised"
  /\ manifestFile.kind = "json"
  /\ ~dryRun

\* C8: rebuildManifest writes the same manifest whatever the order in which
\* the records of the two indices are iterated.
Reordered(seq) ==
  {[i \in 1..Len(seq) |-> seq[f[i]]] : f \in Permutations(1..Len(seq))}

C8_Deterministic ==
  (lastOp.op = "rebuild" /\ Outcome = "ok" /\ ~dryRun)
    => \A cs \in Reordered(catList) :
         \A ds \in Reordered(docs) :
           LET other == rebuildManifest(ds, cs, duplicates, manifestFile, FALSE)
           IN other.result.outcome = "ok" => other.file = manifestFile

\* C9: in the manifest written by rebuildManifest the categories are in
\* ascending slug order and every level of every tree is in ascending order
\* of (order, a missing order counting as 9999), ties in ascending slug order.
SlugBefore(x, y) == CollationRank(x) <= CollationRank(y)

OrderKey(slug) ==
  IF TheDoc(slug).order = NoOrder THEN 9999 ELSE TheDoc(slug).order

NodeBefore(x, y) ==
  \/ OrderKey(x.slug) < OrderKey(y.slug)
  \/ OrderKey(x.slug) = OrderKey(y.slug) /\ SlugBefore(x.slug, y.slug)

RECURSIVE LevelsSorted(_)
LevelsSorted(nodes) ==
  /\ \A i, j \in 1..Len(nodes) : i < j => NodeBefore(nodes[i], nodes[j])
  /\ \A i \in 1..Len(nodes) :
       /\ nodes[i].order = OrderKey(nodes[i].slug)
       /\ LevelsSorted(nodes[i].children)

C9_ManifestSorted ==
  (lastOp.op = "rebuild" /\ Outcome = "ok" /\ ~dryRun) =>
    LET cs == manifestFile.categories IN
    /\ \A i, j \in 1..Len(cs) : i < j => SlugBefore(cs[i].slug, cs[j].slug)
    /\ \A i \in 1..Len(cs) : LevelsSorted(cs[i].docs)

C9_Witness ==
  /\ lastOp.op = "rebuild" /\ Outcome = "ok" /\ ~dryRun
  /\ \E c \in SeqToSet(manifestFile.categories) :
       /\ Len(c.docs) >= 3
       /\ \E i, j \in 1..Len(c.docs) :
            i # j /\ c.docs[i].order = c.docs[j].order
       /\ \E i, j \in 1..Len(c.docs) : c.docs[i].order < c.docs[j].order

\* C10: whatever the changed-path set, categoryDeletions is the remote
\* categories absent from local, docDeletions the remote documents absent
\* from local and docCreations the local documents absent from remote.
Slugs(seq) == {seq[i].slug : i \in 1..Len(seq)}

ExactlyTheSlugs(bucket, S) ==
  Slugs(bucket) = S /\ Len(bucket) = Cardinality(S)

C10_PresenceOnly ==
  plan.made =>
    /\ ExactlyTheSlugs(plan.categoryDeletions,
                       Slugs(remote.categories) \ Slugs(local.categories))
    /\ ExactlyTheSlugs(plan.docDeletions,
                       Slugs(remote.docs) \ Slugs(local.docs))
    /\ ExactlyTheSlugs(plan.docCreations,
                       Slugs(local.docs) \ Slugs(remote.docs))

C10_Witness ==
  /\ plan.made
  /\ changedPaths = [known |-> TRUE, paths |-> {}]
  /\ plan.categoryDeletions # <<>>
  /\ plan.docDeletions # <<>>
  /\ plan.docCreations # <<>>

\* The gate of the category plan and the categories on both sides
ManifestGateOpen ==
  ~changedPaths.known \/ STRUCTURE_MANIFEST \in changedPaths.paths

LocalOnlyCategories == Slugs(local.categories) \ Slugs(remote.categories)

SharedCategories == Slugs(local.categories) \cap Slugs(remote.categories)

WithSlug(seq, s) == CHOOSE r \in SeqToSet(seq) : r.slug = s

CategoryDiffers(s) ==
  \/ WithSlug(local.categories, s).title # WithSlug(remote.categories, s).title
  \/ WithSlug(local.categories, s).type # WithSlug(remote.categories, s).type

SharedDocs == Slugs(local.docs) \cap Slugs(remote.docs)

StructuralAttributes ==
  {"title", "categorySlug", "parentDocSlug", "order", "hidden"}

FileChanged(s) ==
  ~changedPaths.known \/ WithSlug(local.docs, s).absPath \in changedPaths.paths

AttributesDiffer(s) ==
  \E f \in StructuralAttributes :
    WithSlug(local.docs, s)[f] # WithSlug(remote.docs, s)[f]

OnlyOrderDiffers(s) ==
  \A f \in StructuralAttributes :
    (WithSlug(local.docs, s)[f] # WithSlug(remote.docs, s)[f]) <=> f = "order"

\* C12: a document of both local and remote has exactly one docUpdates
\* entry if its file is in the changed-path set (or the set is null) or one
\* of title, categorySlug, parentDocSlug, order, hidden differs from the
\* remote record, and none otherwise.
C12_DocUpdates ==
  plan.made =>
    ExactlyTheSlugs(plan.docUpdates,
                    {s \in SharedDocs : FileChanged(s) \/ AttributesDiffer(s)})

C12_Witness ==
  /\ plan.made
  /\ changedPaths = [known |-> TRUE, paths |-> {}]
  /\ SharedDocs = {"a", "b"}
  /\ OnlyOrderDiffers("a")
  /\ ~AttributesDiffer("b")
  /\ ExactlyTheSlugs(plan.docUpdates, {"a"})

\* C13, as stated: with changedPaths null the plan has no categoryCreations
\* and no categoryUpdates, while the document creations are emitted.
C13_NullGatesCategoriesOff ==
  (plan.made /\ ~changedPaths.known) =>
    /\ plan.categoryCreations = <<>>
    /\ plan.categoryUpdates = <<>>
    /\ ExactlyTheSlugs(plan.docCreations,
                       Slugs(local.docs) \ Slugs(remote.docs))

\* C13: with changedPaths null the category gate is open: every category of
\* local absent from remote is in categoryCreations, every category of both
\* whose title or type differs is in categoryUpdates, and the document
\* creations are emitted.
C13_NullOpensCategoryGate ==
  (plan.made /\ ~changedPaths.known) =>
    /\ ExactlyTheSlugs(plan.categoryCreations, LocalOnlyCategories)
    /\ ExactlyTheSlugs(plan.categoryUpdates,
                       {s \in SharedCategories : CategoryDiffers(s)})
    /\ ExactlyTheSlugs(plan.docCreations,
                       Slugs(local.docs) \ Slugs(remote.docs))

C13_Witness ==
  /\ plan.made
  /\ ~changedPaths.known
  /\ plan.categoryCreations # <<>>
  /\ plan.categoryUpdates # <<>>
  /\ plan.docCreations # <<>>

\* ------------------------------------------------------------------------
\* Bulk move
\* ------------------------------------------------------------------------
\* a step of the action 'moveDocs' in which bulkMoveFlow was called, and
\* what it was asked and what it returned
MoveRan == moves' = moves + 1 /\ lastOp'.stage # "validate"

Asked == lastOp'.sourceSlugs
Target == lastOp'.destination
Flow == lastOp'.flow

IsCategorySlug(x) ==
  \E i \in 1..Len(catList) : toLowerCase(catList[i].slug) = toLowerCase(x)

\* the destination names a document and no category
IsDestinationDoc(x) == ~IsCategorySlug(x) /\ IsDocSlug(x)

DepthOfDoc(d) == Len(AncestorSlugs(d)) + 1

HasChildren(slug) == \E d \in DocSet : d.parent = slug

OccupiedBefore(p) == p \in strays \/ \E d \in DocSet : d.abs = p

\* some operation of the plan targets a path held by another file
TargetTaken ==
  \E i \in 1..Len(Flow.fileOps) :
    /\ Flow.fileOps[i].to # Flow.fileOps[i].from
    /\ OccupiedBefore(Flow.fileOps[i].to)

\* no file written, moved or removed and no record of the index changed
NothingChanged ==
  /\ docs' = docs
  /\ strays' = strays
  /\ manifestFile' = manifestFile
  /\ Flow.index = docs

RejectionKinds ==
  {"NoSources", "NoDestination", "DestinationUnknown", "SourceNotFound",
   "ParentCategoryMismatch", "MaxDepthOnMove", "PathChainError",
   "DestinationOccupied"}

C14_Step ==
  MoveRan =>
    /\ (\/ Asked = <<>>
        \/ Target = EMPTY
        \/ ~IsCategorySlug(Target) /\ ~IsDocSlug(Target)
        \/ \E i \in 1..Len(Asked) : ~IsDocSlug(Asked[i])
        \/ IsDestinationDoc(Target)
             /\ DepthOfDoc(TheDoc(Target)) + 1 > MAX_DOC_DEPTH
        \/ TargetTaken)
         => Flow.outcome = "raised" /\ NothingChanged
    /\ (Flow.outcome = "raised" /\ Flow.errors[1].kind \in RejectionKinds)
         => NothingChanged

RECURSIVE LevelIn(_, _, _)
LevelIn(ds, slug, fuel) ==
  IF fuel = 0 \/ ~Truthy(slug) \/ ~docsHas(ds, slug) THEN 0
  ELSE 1 + LevelIn(ds, docsGet(ds, slug).parent, fuel - 1)

\* C15: a bulk move that would put a source, or a descendant moved with
\* it, deeper than MAX_DOC_DEPTH is rejected: after a move that was
\* applied, no document of the plan is deeper than MAX_DOC_DEPTH.
C15_DepthCheckedAsIfMoved ==
  (lastOp.op = "moveDocs" /\ lastOp.flow.outcome = "ok") =>
    \A i \in 1..Len(lastOp.flow.fileOps) :
      LevelIn(lastOp.flow.index, lastOp.flow.fileOps[i].slug,
              Len(lastOp.flow.index) + 1) <= MAX_DOC_DEPTH

C16_Step ==
  (MoveRan /\ TargetTaken) =>
    /\ Flow.outcome = "raised"
    /\ docs' = docs
    /\ strays' = strays

\* C16: when the target path computed for a document of a bulk move holds
\* a file that is not the file being moved, bulk move raises an error and
\* every file is still at its path with its content.
C16_OccupiedTargetRejected == [][C16_Step]_vars

C16_Witness ==
  /\ lastOp.op = "moveDocs"
  /\ lastOp.flow.outcome = "raised"
  /\ lastOp.flow.errors[1].kind = "DestinationOccupied"
  /\ Len(lastOp.flow.fileOps) >= 2
  /\ ~dryRun
  /\ docs \in MoveLayouts
  /\ \E i \in 1..Len(lastOp.flow.fileOps) :
       lastOp.flow.fileOps[i].to \in strays

AfterDoc(slug) == docsGet(docs', slug)

C17_Step ==
  (/\ MoveRan
   /\ ~dryRun
   /\ Flow.outcome = "ok"
   /\ Len(Asked) = 1
   /\ IsDocSlug(Asked[1])
   /\ ~HasChildren(Asked[1])
   /\ IsDestinationDoc(Target)
   /\ ~HasParent(TheDoc(Target))
   /\ TheDoc(Target).category # TheDoc(Asked[1]).category)
    => /\ AfterDoc(Asked[1]).category = TheDoc(Target).category
       /\ AfterDoc(Asked[1]).parent = Target
       /\ AfterDoc(Asked[1]).abs =
            [dir |-> Append(CategoryFolder(TheDoc(Target)), Target),
             file |-> Asked[1]]
       /\ validateStructure(catList', docs', duplicates', manifestFile',
                            FALSE).outcome = "ok"

\* C17: moving a document A without children from category X under a
\* top-level document B of category Y sets A's category to Y and A's parent
\* to B, places A's file at {Y.folder}/{B.slug}/{A.slug}.md, and validate
\* run afterwards reports no errors.
C17_MoveUnderDocument == [][C17_Step]_vars

\* the documents below slug before the move
DescendantsOf(slug) ==
  {d \in DocSet : slug \in SeqToSet(AncestorSlugs(d))}

PromotedSlugs == {Flow.promotions[i].slug : i \in 1..Len(Flow.promotions)}

C18_Step ==
  (MoveRan /\ ~dryRun /\ Flow.outcome = "ok" /\ Flow.promotions # <<>>) =>
    /\ \A s \in SeqToSet(Asked) :
         \A d \in DescendantsOf(s) :
           (d.slug \in PromotedSlugs /\ d.slug \notin SeqToSet(Asked)) =>
             /\ AfterDoc(d.slug).category = d.category
             /\ AfterDoc(d.slug).parent = NULL
             /\ AfterDoc(d.slug).order = DEFAULT_ORDER
             /\ AfterDoc(d.slug).abs = d.abs
    /\ Len(Asked) = 1 =>
         /\ PromotedSlugs = {d.slug : d \in DescendantsOf(Asked[1])}
         /\ \A d \in DocSet :
              AfterDoc(d.slug).abs # d.abs => d.slug = Asked[1]

\* C18: moving a document that has children in promote mode leaves the
\* category of every document below it unchanged, sets its parent to null
\* and its order to 9999 and leaves its file at its path; only the file of
\* the source document is moved.
C18_PromotedChildrenStay == [][C18_Step]_vars

C18_Witness ==
  /\ lastOp.op = "moveDocs"
  /\ lastOp.flow.outcome = "ok"
  /\ ~dryRun
  /\ Len(lastOp.sourceSlugs) = 1
  /\ Len(lastOp.flow.promotions) = 2
  /\ lastOp.flow.fileOps[1].to # lastOp.flow.fileOps[1].from
  /\ \A i \in 1..2 :
       /\ TheDoc(lastOp.flow.promotions[i].slug).order = DEFAULT_ORDER
       /\ TheDoc(lastOp.flow.promotions[i].slug).parent = NULL

\* C19: a bulk move that completes, in move-all or in promote mode, leaves
\* documents that satisfy the invariants the validator enforces: parent
\* exists, same category as the parent, depth at most 3, no cycle, file at
\* the expected path.
C19_MovePreservesInvariants ==
  (lastOp.op = "moveDocs" /\ lastOp.flow.outcome = "ok")
    => ~StructurallyBroken

\* C20: after a bulk move that completes, the action runs the validator
\* and then rebuilds the manifest, so that at its end the manifest file
\* holds the category and parent of every document on disk.
C20_ManifestFollowsMove ==
  (lastOp.op = "moveDocs" /\ lastOp.flow.outcome = "ok"
     /\ ~StructurallyBroken)
    => /\ lastOp.stage = "done"
       /\ manifestFile.kind = "json"
       /\ ManifestDocs = IndexDocs

\* ------------------------------------------------------------------------
\* Bulk move: the order of its steps and its list of file operations
\* ------------------------------------------------------------------------
FlowOf == lastOp.flow
StepsRun == FlowOf.steps
StepKinds == {StepsRun[i].kind : i \in 1..Len(StepsRun)}

\* C26: within one bulk move every promotion is applied before the first
\* file move of the batch is applied.
C26_PromotionsBeforeMoves ==
  lastOp.op = "moveDocs" =>
    \A i, j \in 1..Len(StepsRun) :
      StepsRun[i].kind = "promotion" /\ StepsRun[j].kind = "move" => i < j

\* a confirmed move, not a dry run, that promoted children and moved files
C26_Witness ==
  /\ lastOp.op = "moveDocs"
  /\ ~dryRun
  /\ FlowOf.outcome = "ok"
  /\ StepKinds = {"promotion", "move"}
  /\ Len(FlowOf.promotions) = 2

\* the batch failed at a file operation after it had applied others
FailedHalfway ==
  /\ FlowOf.outcome = "raised"
  /\ StepsRun # <<>>

\* C27: every document slug is the subject of at most one file operation
\* of the batch, so that no operation fails after earlier operations of the
\* batch were applied.
C27_OneOperationPerSlug ==
  lastOp.op = "moveDocs" =>
    /\ \A i, j \in 1..Len(FlowOf.fileOps) :
         FlowOf.fileOps[i].slug = FlowOf.fileOps[j].slug => i = j
    /\ ~FailedHalfway

\* ------------------------------------------------------------------------
\* The hierarchy manager started with --from and --to
\* ------------------------------------------------------------------------
\* C30: started with --from and --to, the hierarchy manager runs the move
\* flow once and then the process terminates, whether the move succeeded or
\* failed; the main loop does not start the same move again.
C30_CliMoveRunsOnce ==
  isCliMove(cli) /\ lastOp.op = "moveDocs" => ~running

\* ------------------------------------------------------------------------
\* The order of the buckets in executeSyncPlan
\* ------------------------------------------------------------------------
\* the calls of a bucket that were issued, answered or not
Issued(bucket) ==
  {c \in inflight : c.bucket = bucket}
    \cup {Call(s.bucket, s.slug) : s \in {t \in settled : t.bucket = bucket}}

\* every operation of the bucket was answered without an error
Completed(bucket) ==
  \A i \in 1..Len(plan[bucket]) :
    \E s \in settled :
      /\ s.bucket = bucket
      /\ s.slug = plan[bucket][i].slug
      /\ s.result # "error"

\* C22: the executor completes every category creation and category update
\* before it issues a document creation or update, and completes every
\* document deletion before it issues a category deletion.
C22_BucketsInOrder ==
  /\ Issued("docCreations") \cup Issued("docUpdates") # {}
       => Completed("categoryCreations") /\ Completed("categoryUpdates")
  /\ Issued("categoryDeletions") # {} => Completed("docDeletions")

\* a document is being created after the categories of the plan were
\* created
C22_Witness ==
  /\ plan.categoryCreations # <<>>
  /\ \E c \in inflight : c.bucket = "docCreations"
  /\ Completed("categoryCreations")

\* ------------------------------------------------------------------------
\* A remote write that fails
\* ------------------------------------------------------------------------
\* the run has ended (main: catch, process.exit(1))
RunEnded == phase = "failed"

\* C23: a remote write that fails is reported for that operation only: the
\* operations of the same bucket that were not issued yet are still issued,
\* the run does not end with operations of the bucket left over.
C23_FailedWriteLeavesBucketRunning ==
  (\E s \in Failed : s.bucket \in Buckets) => ~(RunEnded /\ pending # <<>>)

\* ------------------------------------------------------------------------
\* fetchRemoteState and a read that fails
\* ------------------------------------------------------------------------
\* the categories whose documents could not be read
FailedReads == {s.slug : s \in {t \in Failed : t.bucket = "fetch"}}

\* C24 (amended): a failed read of the documents of one category does not
\* abort fetchRemoteState; the state it returns holds every remote category
\* of type guide, and the documents of every such category whose read
\* succeeded.
C24_FetchSurvivesFailedRead ==
  [][phase = "fetch" =>
       /\ phase' # "failed"
       /\ phase' # "fetch" =>
            /\ remote'.categories = remoteCategories(service)
            /\ SeqToSet(remote'.docs)
                 = SeqToSet(fetchRemoteState(service, FailedReads').docs)]_vars

\* C24 as stated: the state fetchRemoteState returns holds every category
\* of the remote service.
C24_EveryRemoteCategory ==
  [][phase = "fetch" =>
       /\ phase' # "failed"
       /\ phase' # "fetch" =>
            /\ \A i \in 1..Len(service.categories) :
                 mapHas(remote'.categories,
                        toLowerCase(service.categories[i].slug))
            /\ SeqToSet(remote'.docs)
                 = SeqToSet(fetchRemoteState(service, FailedReads').docs)]_vars

\* a plan was made from a remote state with the documents of one category
\* read and those of another one not
C24_Witness ==
  /\ plan.made
  /\ FailedReads # {}
  /\ remote.docs # <<>>
  /\ phase # "failed"

\* ------------------------------------------------------------------------
\* The cap on the remote calls in flight
\* ------------------------------------------------------------------------
\* C25: during the remote state fetch and the execution of the plan, the
\* number of remote calls in flight is never above MAX_CONCURRENT_API_CALLS;
\* a further call waits until one in flight has been answered.
C25_InFlightWithinCap ==
  phase \in Buckets \cup {"fetch"} =>
    /\ Cardinality(inflight) <= MAX_CONCURRENT_API_CALLS
    /\ pending # <<>> => Cardinality(inflight) = MAX_CONCURRENT_API_CALLS

\* five writes are in flight and a sixth one waits
C25_Witness ==
  /\ phase \in Buckets
  /\ Cardinality(inflight) = MAX_CONCURRENT_API_CALLS
  /\ pending # <<>>

\* ------------------------------------------------------------------------
\* The creation of a document and of its parent
\* ------------------------------------------------------------------------
\* the documents the plan creates
Created == {plan.docCreations[i].doc : i \in 1..Len(plan.docCreations)}

\* C28: when the plan creates a document and its parent, the creation of
\* the child is issued only after the creation of the parent has completed.
C28_ParentCreatedFirst ==
  \A child \in Created, parent \in Created :
    /\ child.parentDocSlug = parent.slug
    /\ Call("docCreations", child.slug) \in Issued("docCreations")
    => Settled(Call("docCreations", parent.slug), "ok") \in settled

\* ------------------------------------------------------------------------
\* A second plan after the first one was applied
\* ------------------------------------------------------------------------
\* every bucket of the plan is empty
EmptyPlan(p) == \A bucket \in Buckets : p[bucket] = <<>>

\* a run with changedPaths = null whose reads and writes all succeeded
FullyApplied ==
  /\ phase = "done"
  /\ ~dryRun
  /\ changedPaths = FullSync
  /\ Failed = {}

\* C29: after every operation of the plan computed with changedPaths = null
\* was applied, the plan computed from the same local state, the updated
\* remote state and an empty set of changed paths has six empty buckets.
C29_SecondPlanIsEmpty ==
  FullyApplied =>
    EmptyPlan(createSyncPlan(local, fetchRemoteState(service, {}), NoChanges))

\* ------------------------------------------------------------------------
\* Dry run
\* ------------------------------------------------------------------------
\* the remote writes in flight
WritesInFlight == {c \in inflight : isWriteOperation(methodOf(c.bucket))}

DrySyncDone == dryRun /\ phase = "done" /\ ~EmptyPlan(plan)

====
